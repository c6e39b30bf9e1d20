---------------------------- MODULE DesktopProofs ----------------------------
(***************************************************************************)
(* Theorems about what runs on an operator's machine.  Desktop and the     *)
(* gates of Launcher: for any number of menu operations, licence keys and  *)
(* releases, however many mishaps there are.  Desk, with QueryCache and    *)
(* Preferences: for any organizations, alerts, lists, tabs and views,      *)
(* however many requests fail.                                             *)
(***************************************************************************)
EXTENDS Desktop, Desk, SequenceTheorems, TLAPS

(* The gates.                                                              *)

LicenseFiles == [first : Nat, key : Keys \cup {NoKey}]

LaunchTypes ==
  /\ stage \in Stages /\ now \in Nat /\ day \in Nat /\ born \in Nat
  /\ license \in LicenseFiles \cup {NoFile} /\ (stage # "off" => license # NoFile)
  /\ version \in Nat /\ remote \in Nat /\ pending \in Nat \cup {NoVersion}
  /\ mishaps \in Nat /\ loaded \subseteq Nat

\* Until something goes wrong, license.json counts from the first launch, and
\* a launch that is past the gate was let through it.
TrialCounted ==
  mishaps = 0 =>
    /\ license # NoFile => license.first = born
    /\ stage \in {"update", "boot"} /\ ~Licensed => now - born <= TrialDays

\* A version whose window has loaded is not one that is yet to be relaunched:
\* versions only grow, and a marker names one that is to come or has just come.
MarkersFresh ==
  /\ \A v \in loaded : v <= version
  /\ version <= remote
  /\ pending # NoVersion => pending >= version /\ pending <= remote /\ pending \notin loaded
  /\ stage = "installing" => pending \in Nat /\ pending > version /\ pending <= remote
  /\ updated => stage \in {"off", "license", "prompt", "update"} /\ version \notin loaded
  /\ stage \in {"license", "prompt", "update"} => ~skipped
  /\ stage = "boot" /\ skipped => version \notin loaded

GateInv == LaunchTypes /\ TrialCounted /\ MarkersFresh

\* What of the launcher a step of the hub changes, if it is not a mishap.
LauncherMoves ==
  \/ Launch \/ Gate \/ CancelPrompt \/ LicenseUnreadable \/ GateThrows
  \/ SkipGate \/ NoUpdate \/ Installed \/ DayPasses \/ Publish
  \/ WindowLoads \/ Quit \/ BootFails \/ Install
  \/ \E k \in Keys : EnterKey(k) \/ MenuKey(k)

\* A mishap of the hub: at most the launch ends by it.
HubMishap ==
  /\ Mishap
  /\ stage' = stage \/ (stage \in {"boot", "ready"} /\ stage' = "off")
  /\ UNCHANGED <<day, remote, licenseVars, updateVars>>

LEMMA EnsuredType ==
  ASSUME NEW file \in LicenseFiles \cup {NoFile}, NEW today \in Nat
  PROVE  /\ Ensured(file, today) \in LicenseFiles /\ Ensured(file, today) # NoFile
         /\ Ensured(file, today).first = IF file = NoFile THEN today ELSE file.first
BY LauncherAssumption DEF Ensured, LicenseFiles

\* A key that is accepted opens the gate, and a gate that opens without a valid
\* key is within the trial.
LEMMA GateOpens ==
  ASSUME NEW file \in LicenseFiles, NEW today \in Nat,
         ~Blocked(EvaluateLicense(today, file.first, file.key)),
         file.key = NoKey \/ ~file.key.valid
  PROVE  today - file.first <= TrialDays
<1>1. EvaluateLicense(today, file.first, file.key) = EvaluateTrialOnly(today, file.first)
  BY DEF EvaluateLicense
<1>2. ~(today - file.first > TrialDays)
  BY <1>1 DEF EvaluateTrialOnly, Blocked
<1> QED
  BY <1>2, LauncherAssumption DEF LicenseFiles

LEMMA LicenseSaved ==
  ASSUME NEW file \in LicenseFiles, NEW k \in Keys
  PROVE  /\ [file EXCEPT !.key = k] \in LicenseFiles /\ [file EXCEPT !.key = k] # NoFile
         /\ [file EXCEPT !.key = k].first = file.first
<1>1. [file EXCEPT !.key = k] \in LicenseFiles
  BY DEF LicenseFiles
<1> QED
  BY <1>1, LauncherAssumption DEF LicenseFiles

LEMMA LaunchTypesStep ==
  ASSUME LaunchTypes, LauncherMoves \/ HubMishap,
         stage = "installing" => pending \in Nat
  PROVE  LaunchTypes'
<1> USE DEF licenseVars, updateVars
<1>1. CASE Launch
  BY <1>1, EnsuredType DEF Launch, LaunchTypes, Stages
<1>2. CASE Gate
  BY <1>2 DEF Gate, LaunchTypes, Stages
<1>3. CASE CancelPrompt
  BY <1>3 DEF CancelPrompt, LaunchTypes, Stages
<1>4. CASE SkipGate
  BY <1>4 DEF SkipGate, LaunchTypes, Stages
<1>5. CASE NoUpdate
  BY <1>5 DEF NoUpdate, LaunchTypes, Stages
<1>6. CASE Quit
  BY <1>6 DEF Quit, LaunchTypes, Stages
<1>7. CASE BootFails
  BY <1>7 DEF BootFails, LaunchTypes, Stages
<1>8. CASE LicenseUnreadable
  BY <1>8 DEF LicenseUnreadable, Mishap, LaunchTypes, Stages
<1>9. CASE GateThrows
  BY <1>9 DEF GateThrows, Mishap, LaunchTypes, Stages
<1>10. CASE HubMishap
  BY <1>10 DEF HubMishap, Mishap, LaunchTypes, Stages
<1>11. CASE Installed
  BY <1>11 DEF Installed, LaunchTypes, Stages
<1>12. CASE Install
  BY <1>12 DEF Install, LaunchTypes, Stages
<1>13. CASE DayPasses
  BY <1>13 DEF DayPasses, LaunchTypes, Stages
<1>14. CASE Publish
  BY <1>14 DEF Publish, LaunchTypes, Stages
<1>15. CASE WindowLoads
  BY <1>15 DEF WindowLoads, LaunchTypes, Stages
<1>16. ASSUME NEW k \in Keys, EnterKey(k) \/ MenuKey(k)
      PROVE  LaunchTypes'
  <2>1. license \in LicenseFiles
    BY <1>16 DEF EnterKey, MenuKey, LaunchTypes
  <2>2. license' \in LicenseFiles /\ license' # NoFile
    BY <1>16, <2>1, LicenseSaved DEF EnterKey, MenuKey
  <2>3. UNCHANGED <<day, remote, now, born, updateVars, mishaps>> /\ stage' \in Stages
    BY <1>16 DEF EnterKey, MenuKey, LaunchTypes, Stages
  <2> QED
    BY <2>2, <2>3 DEF LaunchTypes
<1> QED
  BY <1>1, <1>2, <1>3, <1>4, <1>5, <1>6, <1>7, <1>8, <1>9, <1>10, <1>11, <1>12, <1>13, <1>14, <1>15, <1>16
     DEF LauncherMoves

\* The first launch is remembered, and the gate opens only within the trial.
LEMMA TrialStep ==
  ASSUME LaunchTypes, TrialCounted, LauncherMoves \/ HubMishap
  PROVE  TrialCounted'
<1> USE DEF LaunchTypes, licenseVars, updateVars
<1>1. CASE Launch
  <2>1. license' = Ensured(license, day)
    BY <1>1 DEF Launch
  <2>2. ASSUME mishaps = 0
        PROVE  license'.first = born'
    BY <1>1, <2>1, <2>2, EnsuredType DEF Launch, TrialCounted
  <2> QED
    BY <1>1, <2>2 DEF Launch, TrialCounted
<1>2. CASE Gate
  <2>1. license \in LicenseFiles /\ license # NoFile /\ UNCHANGED <<license, now, born, mishaps>>
    BY <1>2 DEF Gate
  <2>2. ASSUME mishaps = 0, stage' \in {"update", "boot"}, ~Licensed
        PROVE  now - born <= TrialDays
    <3>1. ~Blocked(EvaluateLicense(now, license.first, license.key))
      BY <1>2, <2>2 DEF Gate
    <3>2. license.key = NoKey \/ ~license.key.valid
      BY <2>1, <2>2 DEF Licensed
    <3>3. now - license.first <= TrialDays
      BY <2>1, <3>1, <3>2, GateOpens
    <3> QED
      BY <2>1, <2>2, <3>3 DEF TrialCounted
  <2> QED
    BY <2>1, <2>2 DEF TrialCounted, Licensed
<1>3. CASE LicenseUnreadable \/ GateThrows \/ HubMishap
  <2>1. mishaps' # 0
    BY <1>3 DEF LicenseUnreadable, GateThrows, HubMishap, Mishap
  <2> QED
    BY <2>1 DEF TrialCounted
<1>4. ASSUME UNCHANGED <<license, now, born, mishaps>>,
             stage' \in {"update", "boot"} => stage \in {"update", "boot"}
      PROVE  TrialCounted'
  BY <1>4 DEF TrialCounted, Licensed
<1>5. CASE CancelPrompt \/ SkipGate \/ NoUpdate \/ Installed \/ Install \/ DayPasses
           \/ Publish \/ WindowLoads \/ Quit \/ BootFails
  BY <1>4, <1>5 DEF CancelPrompt, SkipGate, NoUpdate, Installed, Install, DayPasses,
                    Publish, WindowLoads, Quit, BootFails
<1>6. ASSUME NEW k \in Keys, EnterKey(k) \/ MenuKey(k)
      PROVE  TrialCounted'
  <2>1. license \in LicenseFiles /\ license # NoFile /\ license' = [license EXCEPT !.key = k]
    BY <1>6 DEF EnterKey, MenuKey
  <2>2. license' # NoFile /\ license'.first = license.first
    BY <2>1, LicenseSaved
  <2>3. stage' \in {"license", "ready"} /\ UNCHANGED <<born, mishaps>>
    BY <1>6 DEF EnterKey, MenuKey
  <2> QED
    BY <2>1, <2>2, <2>3 DEF TrialCounted
<1> QED
  BY <1>1, <1>2, <1>3, <1>5, <1>6 DEF LauncherMoves

\* Versions grow, and the marker is cleared by the window it was for.
LEMMA MarkersStep ==
  ASSUME LaunchTypes, MarkersFresh, LauncherMoves \/ HubMishap
  PROVE  MarkersFresh'
<1> USE DEF licenseVars, updateVars
<1>1. CASE Launch
  BY <1>1 DEF Launch, LaunchTypes, MarkersFresh
<1>2. CASE Gate
  BY <1>2 DEF Gate, LaunchTypes, MarkersFresh
<1>3. CASE CancelPrompt
  BY <1>3 DEF CancelPrompt, LaunchTypes, MarkersFresh
<1>4. CASE SkipGate
  BY <1>4 DEF SkipGate, IsPostUpdateRelaunch, LaunchTypes, MarkersFresh
<1>5. CASE NoUpdate
  BY <1>5 DEF NoUpdate, IsPostUpdateRelaunch, LaunchTypes, MarkersFresh
<1>6. CASE Quit
  BY <1>6 DEF Quit, LaunchTypes, MarkersFresh
<1>7. CASE BootFails
  BY <1>7 DEF BootFails, LaunchTypes, MarkersFresh
<1>8. CASE LicenseUnreadable
  BY <1>8 DEF LicenseUnreadable, LaunchTypes, MarkersFresh
<1>9. CASE GateThrows
  BY <1>9 DEF GateThrows, LaunchTypes, MarkersFresh
<1>10. CASE HubMishap
  BY <1>10 DEF HubMishap, LaunchTypes, MarkersFresh
<1>11. CASE Installed
  BY <1>11 DEF Installed, LaunchTypes, MarkersFresh
<1>12. CASE Install
  BY <1>12 DEF Install, IsPostUpdateRelaunch, LaunchTypes, MarkersFresh
<1>13. CASE DayPasses
  BY <1>13 DEF DayPasses, LaunchTypes, MarkersFresh
<1>14. CASE Publish
  BY <1>14 DEF Publish, LaunchTypes, MarkersFresh
<1>15. CASE WindowLoads
  BY <1>15 DEF WindowLoads, LaunchTypes, MarkersFresh
<1>16. ASSUME NEW k \in Keys, EnterKey(k) \/ MenuKey(k)
      PROVE  MarkersFresh'
  BY <1>16 DEF EnterKey, MenuKey, MarkersFresh
<1> QED
  BY <1>1, <1>2, <1>3, <1>4, <1>5, <1>6, <1>7, <1>8, <1>9, <1>10, <1>11, <1>12, <1>13, <1>14, <1>15, <1>16
     DEF LauncherMoves

\* Of the launcher's variables a step of the hub changes what one of the
\* launcher's own steps does, or a mishap, or nothing.
LEMMA HubMovesLauncher ==
  ASSUME [DesktopNext]_desktopVars
  PROVE  LauncherMoves \/ HubMishap \/ UNCHANGED launchVars
<1> USE DEF launchVars
<1>1. CASE Launching
  BY <1>1 DEF Launching, LauncherMoves
<1>2. CASE ApiListens \/ Ingest \/ BootPostgres \/ BootApi \/ BootWait \/ BootBreaks
  BY <1>2 DEF ApiListens, Ingest, BootPostgres, BootApi, BootWait, BootBreaks
<1>3. CASE ApiDies
  BY <1>3 DEF ApiDies, HubMishap
<1>4. CASE BootWindow \/ Exit \/ ExitToInstall
  BY <1>4 DEF BootWindow, Exit, ExitToInstall, LauncherMoves
<1>5. CASE ShutdownAwaited \/ ShutdownOvertaken \/ ShutdownApi \/ Cleanup
  BY <1>5 DEF ShutdownAwaited, ShutdownOvertaken, ShutdownApi, Cleanup
<1>6. CASE PowerLoss \/ ShutdownPostgres
  BY <1>6 DEF PowerLoss, ShutdownPostgres, StopPostgres, HubMishap
<1>7. ASSUME NEW o \in Ops, OpStep(o) \/ Begin(o, "export") \/ Begin(o, "restore")
      PROVE  LauncherMoves \/ HubMishap \/ UNCHANGED launchVars
  <2>1. CASE OpStopApi(o) \/ Archive(o) \/ Apply(o) \/ OpStartApi(o)
             \/ OpWait(o) \/ Begin(o, "export") \/ Begin(o, "restore")
    BY <2>1 DEF OpStopApi, Archive, Apply, OpStartApi, OpWait, Begin
  <2>2. CASE CopyThrows(o)
    BY <2>2 DEF CopyThrows, HubMishap
  <2>3. CASE OpStartPostgres(o) \/ OpStopPostgres(o)
    BY <2>3 DEF OpStartPostgres, OpStopPostgres, StopPostgres, HubMishap
  <2> QED
    BY <1>7, <2>1, <2>2, <2>3 DEF OpStep
<1>8. CASE UNCHANGED desktopVars
  BY <1>8 DEF desktopVars
<1> QED
  BY <1>1, <1>2, <1>3, <1>4, <1>5, <1>6, <1>7, <1>8 DEF DesktopNext

LEMMA GateInit == DesktopInit => GateInv
BY DEF DesktopInit, LauncherInit, GateInv, LaunchTypes, TrialCounted, MarkersFresh, Stages

LEMMA GateStep ==
  ASSUME GateInv, [DesktopNext]_desktopVars
  PROVE  GateInv'
<1>1. CASE LauncherMoves \/ HubMishap
  <2>1. stage = "installing" => pending \in Nat
    BY DEF GateInv, MarkersFresh
  <2> QED
    BY <1>1, <2>1, LaunchTypesStep, TrialStep, MarkersStep DEF GateInv
<1>2. CASE UNCHANGED launchVars
  BY <1>2 DEF launchVars, licenseVars, updateVars, GateInv, LaunchTypes, TrialCounted,
              MarkersFresh, Licensed
<1> QED
  BY <1>1, <1>2, HubMovesLauncher

\* Whatever launches, releases, failed boots, keys and quits came before, the
\* trial is given once, and only a version whose window has not opened yet passes
\* over the update gate (license.ts:174-184, auto-update.ts:79-83, 362-373).
THEOREM GatesAreKept == DesktopSpec => []GatesHold
<1>1. GateInv /\ [DesktopNext]_desktopVars => GateInv'
  BY GateStep
<1>2. GateInv => GatesHold
  BY DEF GateInv, TrialCounted, MarkersFresh, GatesHold
<1> QED
  BY <1>1, <1>2, GateInit, PTL DEF DesktopSpec
-----------------------------------------------------------------------------
(***************************************************************************)
(* Backups.  Until two operations overlap, at most one is under way, and   *)
(* only while the window is open; until a Postgres is lost, the one that   *)
(* runs on a booted hub is the one the launcher has a handle of.  So an    *)
(* operation that has stopped Postgres copies cold.                        *)
(***************************************************************************)

OpStates == [what : {"none", "export", "restore"},
             pc : {"idle", "stopApi", "stopPg", "copyDb", "fillDb", "copyRaw", "startPg",
                   "failPg", "startApi", "failApi", "wait"}]

Copying == {"copyDb", "fillDb", "copyRaw"}

OpTypes ==
  /\ op \in [Ops -> OpStates]
  /\ \A o \in Ops : Underway(o) => stage = "ready"

OneAtATime == ~overlap => \A o, p \in Ops : Underway(o) /\ Underway(p) => o = p

HandleKept ==
  /\ pg \in {"up", "down"} /\ (stage = "ready" => boot = "done")
  /\ boot \in {"api", "wait", "window", "done"} /\ ~lost /\ pg = "up" => pgRef = "live"

CopyIsCold ==
  ~overlap /\ ~lost => \A o \in Ops : op[o].pc \in Copying => pg = "down"

ColdInv == OpTypes /\ OneAtATime /\ HandleKept /\ CopyIsCold /\ ColdCopy

\* A step of one operation leaves the others where they are.
LEMMA OpMoves ==
  ASSUME OpTypes, NEW o \in Ops, NEW pc \in {"idle", "stopPg", "copyDb", "fillDb", "copyRaw",
                                            "startPg", "failPg", "startApi", "failApi", "wait"},
         To(o, pc)
  PROVE  /\ op' \in [Ops -> OpStates]
         /\ op'[o].pc = pc /\ op'[o].what = op[o].what
         /\ \A p \in Ops \ {o} : op'[p] = op[p]
BY DEF OpTypes, OpStates, To

\* An operation's step ends it or takes it on; it begins none.
LEMMA OpGoesOn ==
  ASSUME OpTypes, OneAtATime, NEW o \in Ops, Underway(o), UNCHANGED <<stage, overlap>>,
         NEW pc \in {"idle", "stopPg", "copyDb", "fillDb", "copyRaw",
                     "startPg", "failPg", "startApi", "failApi", "wait"},
         To(o, pc)
  PROVE  OpTypes' /\ OneAtATime'
<1>1. \A p \in Ops : Underway(p)' => Underway(p)
  BY OpMoves DEF Underway
<1>2. op' \in [Ops -> OpStates]
  BY OpMoves
<1> QED
  BY <1>1, <1>2 DEF OpTypes, OneAtATime

\* The operations are gone with the process.
LEMMA OpsGone ==
  ASSUME op' = [o \in Ops |-> NoOp]
  PROVE  /\ op' \in [Ops -> OpStates]
         /\ \A o \in Ops : op'[o].pc = "idle" /\ op'[o].what = "none"
BY DEF NoOp, OpStates

\* Steps that leave the operations and Postgres alone.
LEMMA ColdFrame ==
  ASSUME ColdInv, UNCHANGED <<op, overlap, hot, lost, pg, pgRef>>,
         stage = "ready" => stage' = "ready",
         stage' = "ready" => boot' = "done",
         boot' \in {"api", "wait", "window", "done"} => boot \in {"api", "wait", "window", "done"}
  PROVE  ColdInv'
BY DEF ColdInv, OpTypes, OneAtATime, HandleKept, CopyIsCold, ColdCopy, Underway

LEMMA ColdInit == DesktopInit => ColdInv
BY DEF DesktopInit, LauncherInit, ColdInv, OpTypes, OneAtATime, HandleKept, CopyIsCold,
       ColdCopy, Underway, NoOp, OpStates, Copying

\* The launcher's own steps neither open the window nor close it.
LEMMA LaunchingStage ==
  ASSUME Launching
  PROVE  (stage = "ready") <=> (stage' = "ready")
BY DEF Launching, Launch, Gate, CancelPrompt, LicenseUnreadable, GateThrows, SkipGate,
       NoUpdate, Installed, DayPasses, Publish, EnterKey, MenuKey

LEMMA ColdStep ==
  ASSUME ColdInv, [DesktopNext]_desktopVars
  PROVE  ColdInv'
<1> USE DEF childVars, quitVars, dataVars, opVars
<1>0. OpTypes /\ OneAtATime /\ HandleKept /\ CopyIsCold /\ ColdCopy
  BY DEF ColdInv
<1>1. CASE Launching
  <2>1. (stage = "ready") <=> (stage' = "ready")
    BY <1>1, LaunchingStage
  <2>2. UNCHANGED hubVars
    BY <1>1 DEF Launching
  <2> QED
    BY <1>0, <2>1, <2>2, ColdFrame DEF hubVars, HandleKept
<1>2. CASE ApiListens
  BY <1>0, <1>2, ColdFrame DEF ApiListens, launchVars, HandleKept
<1>3. CASE ApiDies
  BY <1>0, <1>3, ColdFrame DEF ApiDies, HandleKept
<1>4. CASE Ingest
  BY <1>0, <1>4, ColdFrame DEF Ingest, launchVars, HandleKept
<1>5. CASE BootPostgres
  <2>1. /\ stage = "boot" /\ boot = "no"
        /\ UNCHANGED <<stage, op, overlap, hot>>
        /\ \/ PostgresStarts /\ boot' = "api"
           \/ PostgresRefuses /\ boot' = "failed"
    BY <1>5 DEF BootPostgres, launchVars
  <2>2. \A o \in Ops : op[o].pc = "idle"
    BY <1>0, <2>1 DEF OpTypes, Underway
  <2>3. OpTypes' /\ OneAtATime' /\ CopyIsCold'
    BY <1>0, <2>1, <2>2 DEF OpTypes, OneAtATime, CopyIsCold, Copying, Underway
  <2>4. HandleKept'
    BY <1>0, <2>1 DEF HandleKept, PostgresStarts, PostgresRefuses
  <2>5. ColdCopy'
    BY <1>0, <2>1, Zenon DEF ColdCopy, PostgresStarts, PostgresRefuses
  <2> QED
    BY <2>3, <2>4, <2>5 DEF ColdInv
<1>6. CASE BootApi
  BY <1>0, <1>6, ColdFrame DEF BootApi, BootStep, launchVars, HandleKept
<1>7. CASE BootWait
  BY <1>0, <1>7, ColdFrame DEF BootWait, BootStep, launchVars, HandleKept
<1>8. CASE BootWindow
  BY <1>0, <1>8, ColdFrame DEF BootWindow, BootStep, WindowLoads, HandleKept
<1>9. CASE BootBreaks
  BY <1>0, <1>9, ColdFrame DEF BootBreaks, BootStep, launchVars, HandleKept
<1>10. CASE ShutdownAwaited \/ ShutdownOvertaken \/ ShutdownApi
  BY <1>0, <1>10, ColdFrame DEF ShutdownAwaited, ShutdownOvertaken, ShutdownApi, launchVars,
                                HandleKept
<1>11. ASSUME StopPostgres
       PROVE  /\ HandleKept /\ UNCHANGED <<stage, boot>> => HandleKept'
              /\ boot = "done" /\ ~lost' => pg' # "up"
              /\ pg = "down" => pg' = "down"
              /\ lost => lost'
  BY <1>0, <1>11 DEF StopPostgres, HandleKept
<1>12. CASE ShutdownPostgres
  <2>1. StopPostgres /\ UNCHANGED <<stage, boot, op, overlap, hot>>
    BY <1>12 DEF ShutdownPostgres
  <2> QED
    BY <1>0, <1>11, <2>1
       DEF ColdInv, OpTypes, OneAtATime, CopyIsCold, ColdCopy, Underway
<1>13. CASE Exit \/ ExitToInstall \/ PowerLoss
  <2>1. /\ op' = [o \in Ops |-> NoOp] /\ boot' = "no" /\ stage' # "ready"
        /\ UNCHANGED <<lost, overlap, hot>> /\ pg' \in {pg, "down"}
    BY <1>13 DEF Exit, ExitToInstall, PowerLoss, Gone, Quit, BootFails, Install
  <2>2. OpTypes' /\ OneAtATime' /\ CopyIsCold'
    BY <2>1, OpsGone DEF OpTypes, OneAtATime, CopyIsCold, Copying, Underway
  <2>3. HandleKept' /\ ColdCopy'
    BY <1>0, <2>1 DEF HandleKept, ColdCopy
  <2> QED
    BY <2>2, <2>3 DEF ColdInv
<1>14. CASE Cleanup
  <2>1. stage = "off" /\ UNCHANGED <<stage, op, overlap, hot, lost, boot>> /\ pg' = "down"
    BY <1>14 DEF Cleanup, launchVars
  <2> QED
    BY <1>0, <2>1
       DEF ColdInv, OpTypes, OneAtATime, HandleKept, CopyIsCold, ColdCopy, Underway
<1>15. ASSUME NEW o \in Ops, NEW what \in {"export", "restore"}, Begin(o, what)
       PROVE  ColdInv'
  <2>1. /\ op' = [op EXCEPT ![o] = [what |-> what, pc |-> "stopApi"]]
        /\ overlap' = (overlap \/ \E p \in Ops : Underway(p))
        /\ stage = "ready" /\ UNCHANGED <<stage, boot, pg, pgRef, lost, hot>>
    BY <1>15 DEF Begin, launchVars
  <2>2. /\ op' \in [Ops -> OpStates] /\ op'[o].pc = "stopApi"
        /\ \A p \in Ops \ {o} : op'[p] = op[p]
    BY <1>0, <2>1 DEF OpTypes, OpStates
  <2>3. OpTypes'
    BY <2>1, <2>2 DEF OpTypes
  <2>4. OneAtATime'
    BY <2>1, <2>2 DEF OneAtATime, Underway
  <2>5. CopyIsCold'
    BY <1>0, <2>1, <2>2 DEF CopyIsCold, Copying
  <2> QED
    BY <1>0, <2>1, <2>3, <2>4, <2>5 DEF ColdInv, HandleKept, ColdCopy
<1>16. ASSUME NEW o \in Ops, OpStep(o)
       PROVE  ColdInv'
  <2>1. Underway(o) /\ UNCHANGED <<stage, boot, overlap>>
    BY <1>16 DEF OpStep, OpStopApi, OpStopPostgres, Archive, Apply, CopyThrows, OpStartPostgres,
                 OpStartApi, OpWait, Underway, launchVars
  <2>2. boot = "done"
    BY <1>0, <2>1 DEF OpTypes, HandleKept
  <2>3. OpTypes' /\ OneAtATime'
    BY <1>0, <1>16, <2>1, OpGoesOn
       DEF OpStep, OpStopApi, OpStopPostgres, Archive, Apply, CopyThrows, OpStartPostgres,
           OpStartApi, OpWait
  <2>4. \A p \in Ops \ {o} : ~overlap => op'[p].pc = op[p].pc /\ ~Underway(p)
    BY <1>0, <1>16, <2>1, OpMoves
       DEF OpStep, OpStopApi, OpStopPostgres, Archive, Apply, CopyThrows, OpStartPostgres,
           OpStartApi, OpWait, OneAtATime
  <2>5. CASE OpStopApi(o) \/ OpStartApi(o) \/ OpWait(o) \/ CopyThrows(o)
    <3>1. UNCHANGED <<pg, pgRef, lost, hot>>
      BY <2>5 DEF OpStopApi, OpStartApi, OpWait, CopyThrows
    <3>2. op'[o].pc \notin Copying
      BY <1>0, <2>5, OpMoves DEF OpStopApi, OpStartApi, OpWait, CopyThrows, Copying
    <3> QED
      BY <1>0, <2>1, <2>3, <2>4, <3>1, <3>2 DEF ColdInv, HandleKept, CopyIsCold, ColdCopy
  <2>6. CASE OpStopPostgres(o)
    <3>1. StopPostgres /\ UNCHANGED hot
      BY <2>6 DEF OpStopPostgres
    <3>2. ~lost' => pg' = "down"
      BY <1>0, <2>2, <3>1 DEF HandleKept, StopPostgres
    <3> QED
      BY <1>0, <1>11, <2>1, <2>3, <2>4, <3>1, <3>2 DEF ColdInv, CopyIsCold, ColdCopy
  <2>7. CASE Archive(o) \/ Apply(o)
    <3>1. /\ UNCHANGED <<pg, pgRef, lost>> /\ op[o].pc \in Copying
          /\ hot' => hot \/ pg = "up"
      BY <2>7 DEF Archive, Apply, Copying
    <3>2. ~overlap /\ ~lost => pg = "down"
      BY <1>0, <3>1 DEF CopyIsCold
    <3>3. ColdCopy'
      BY <1>0, <2>1, <3>1, <3>2 DEF ColdCopy
    <3>4. CopyIsCold'
      BY <1>0, <2>1, <3>1, <3>2, <2>4 DEF CopyIsCold
    <3> QED
      BY <1>0, <2>1, <2>3, <3>1, <3>3, <3>4 DEF ColdInv, HandleKept
  <2>8. CASE OpStartPostgres(o)
    <3>1. /\ UNCHANGED hot /\ (PostgresStarts \/ PostgresRefuses)
          /\ op[o].pc \in {"startPg", "failPg"}
      BY <2>8 DEF OpStartPostgres
    <3>2. op'[o].pc \notin Copying
      BY <1>0, <2>8, OpMoves DEF OpStartPostgres, Copying
    <3>3. HandleKept'
      BY <1>0, <2>1, <2>2, <3>1 DEF HandleKept, PostgresStarts, PostgresRefuses
    <3>4. lost => lost'
      BY <3>1 DEF PostgresStarts, PostgresRefuses
    <3>5. \A p \in Ops : ~overlap => op'[p].pc \notin Copying
      BY <2>4, <3>2 DEF Copying, Underway
    <3>6. CopyIsCold'
      BY <2>1, <3>5 DEF CopyIsCold
    <3>7. ColdCopy'
      BY <1>0, <2>1, <3>1, <3>4 DEF ColdCopy
    <3> QED
      BY <2>3, <3>3, <3>6, <3>7 DEF ColdInv
  <2> QED
    BY <1>16, <2>5, <2>6, <2>7, <2>8 DEF OpStep
<1>17. CASE UNCHANGED desktopVars
  BY <1>0, <1>17, ColdFrame DEF desktopVars, launchVars, hubVars, HandleKept
<1> QED
  BY <1>1, <1>2, <1>3, <1>4, <1>5, <1>6, <1>7, <1>8, <1>9, <1>10, <1>12, <1>13, <1>14,
     <1>15, <1>16, <1>17 DEF DesktopNext

\* Backups are cold: pgdata is copied and replaced only while no Postgres runs on
\* it, unless two operations were begun at once, a Postgres was started beside a
\* running one, or stopping it failed (backup-core.ts:4-7, backup-actions.ts:28-52,
\* main.ts:168-241).
THEOREM BackupsAreCold == DesktopSpec => []ColdCopy
<1>1. ColdInv /\ [DesktopNext]_desktopVars => ColdInv'
  BY ColdStep
<1>2. ColdInv => ColdCopy
  BY DEF ColdInv
<1> QED
  BY <1>1, <1>2, ColdInit, PTL DEF DesktopSpec
-----------------------------------------------------------------------------
(***************************************************************************)
(* The data.  Until an operation is overtaken, cut short, keeps the files  *)
(* of the hub or runs beside a lost Postgres, only a restore that is       *)
(* replacing the directories takes them apart, and what it puts there      *)
(* belongs together: an archive is finished with both or not at all.       *)
(***************************************************************************)

AtRest == ~overlap /\ ~lost /\ ~cut /\ ~kept

Replacing(o) == op[o].what = "restore" /\ op[o].pc \in {"fillDb", "copyRaw"}

DataTypes == db \in Int /\ raw \in Int /\ zip \in [db : Int, raw : Int]

ZipBelongs == zip.raw # Absent => zip.raw = zip.db /\ zip.db \in Nat

OpData(o) ==
  /\ Replacing(o) => zip.raw # Absent
  /\ Replacing(o) /\ op[o].pc = "copyRaw" => db = zip.db
  /\ op[o].what = "export" /\ op[o].pc = "copyRaw" => zip.db = db

DataKept ==
  /\ raw \in Nat /\ ZipBelongs
  /\ (\A o \in Ops : ~Replacing(o)) => db = raw
  /\ \A o \in Ops : OpData(o)

DataInv == DataTypes /\ (AtRest => DataKept)

\* Histories are not taken back.
LEMMA HistoryStays ==
  ASSUME [DesktopNext]_desktopVars, AtRest'
  PROVE  AtRest
<1> USE DEF AtRest, childVars, opVars
<1>1. CASE Launching \/ UNCHANGED desktopVars
  BY <1>1 DEF Launching, desktopVars, hubVars
<1>2. CASE \/ ApiListens \/ ApiDies \/ Ingest \/ BootApi \/ BootWait \/ BootWindow \/ BootBreaks
           \/ ShutdownAwaited \/ ShutdownOvertaken \/ ShutdownApi \/ ShutdownPostgres \/ Cleanup
  BY <1>2 DEF ApiListens, ApiDies, Ingest, BootApi, BootWait, BootWindow, BootBreaks,
              ShutdownAwaited, ShutdownOvertaken, ShutdownApi, ShutdownPostgres, StopPostgres, Cleanup
<1>3. ASSUME PostgresStarts \/ PostgresRefuses
      PROVE  lost => lost'
  BY <1>3, Zenon DEF PostgresStarts, PostgresRefuses
<1>4. CASE BootPostgres
  <2>1. (PostgresStarts \/ PostgresRefuses) /\ UNCHANGED <<overlap, cut, kept>>
    BY <1>4 DEF BootPostgres
  <2> QED
    BY <1>3, <2>1
<1>5. CASE Exit \/ ExitToInstall \/ PowerLoss
  <2>1. /\ UNCHANGED <<overlap, kept, lost>>
        /\ cut' = (cut \/ \E o \in Ops : Underway(o) /\ op[o].what = "restore")
    BY <1>5 DEF Exit, ExitToInstall, PowerLoss, Gone
  <2> QED
    BY <2>1
<1>6. ASSUME NEW o \in Ops, OpStep(o) \/ Begin(o, "export") \/ Begin(o, "restore")
      PROVE  AtRest
  <2>1. CASE OpStartPostgres(o)
    <3>1. (PostgresStarts \/ PostgresRefuses) /\ UNCHANGED <<overlap, cut, kept>>
      BY <2>1 DEF OpStartPostgres
    <3> QED
      BY <1>3, <3>1
  <2>2. CASE Begin(o, "export") \/ Begin(o, "restore")
    <3>1. /\ UNCHANGED <<lost, cut, kept>>
          /\ overlap' = (overlap \/ \E p \in Ops : Underway(p))
      BY <2>2 DEF Begin
    <3> QED
      BY <3>1
  <2>3. CASE CopyThrows(o)
    BY <2>3 DEF CopyThrows
  <2>4. CASE OpStopApi(o) \/ OpStopPostgres(o) \/ Archive(o) \/ Apply(o) \/ OpStartApi(o) \/ OpWait(o)
    <3>1. UNCHANGED <<overlap, cut>>
      BY <2>4 DEF OpStopApi, OpStopPostgres, Archive, Apply, OpStartApi, OpWait
    <3>2. CASE OpStopApi(o) \/ Archive(o) \/ OpStartApi(o) \/ OpWait(o)
      BY <2>4, <3>1, <3>2 DEF OpStopApi, Archive, OpStartApi, OpWait
    <3>3. CASE OpStopPostgres(o)
      <4>1. StopPostgres /\ UNCHANGED kept
        BY <3>3 DEF OpStopPostgres
      <4>2. lost => lost'
        BY <4>1, Zenon DEF StopPostgres
      <4> QED
        BY <3>1, <4>1, <4>2
    <3>4. CASE Apply(o)
      <4>1. UNCHANGED lost /\ kept' = (kept \/ (op[o].pc = "copyRaw" /\ Restored # zip.raw))
        BY <3>4 DEF Apply
      <4> QED
        BY <3>1, <4>1
    <3> QED
      BY <2>4, <3>2, <3>3, <3>4
  <2> QED
    BY <1>6, <2>1, <2>2, <2>3, <2>4 DEF OpStep
<1> QED
  BY <1>1, <1>2, <1>4, <1>5, <1>6 DEF DesktopNext

\* The directories and the archive stay as they are, and no operation comes to
\* a stage that says something of them.
LEMMA DataFrame ==
  ASSUME DataInv, AtRest, UNCHANGED dataVars,
         \A o \in Ops : \/ op'[o] = op[o]
                        \/ /\ op'[o].pc \notin {"fillDb", "copyRaw"}
                           /\ ~Replacing(o)
  PROVE  DataInv'
<1> USE DEF dataVars
<1>1. \A o \in Ops : Replacing(o)' <=> Replacing(o)
  BY DEF Replacing
<1>2. \A o \in Ops : OpData(o) => OpData(o)'
  BY DEF OpData, Replacing
<1>3. DataKept => DataKept'
  BY <1>1, <1>2 DEF DataKept, ZipBelongs
<1> QED
  BY <1>3 DEF DataInv, DataTypes

LEMMA DataInit == DesktopInit => DataInv
BY DEF DesktopInit, DataInv, DataTypes, DataKept, ZipBelongs, OpData, Replacing, NoOp, NoZip,
       Absent, AtRest

\* With no restore replacing them, the directories are of one generation and no
\* start of Postgres makes a new cluster.
LEMMA StartKeepsData ==
  ASSUME DataInv, AtRest, \A o \in Ops : ~Replacing(o), PostgresStarts \/ PostgresRefuses
  PROVE  db' = db
<1>1. db \in Nat
  BY DEF DataInv, DataKept
<1>2. db # Removed
  BY <1>1 DEF Removed
<1> QED
  BY <1>2 DEF PostgresStarts, PostgresRefuses

LEMMA DataTypesStep ==
  ASSUME DataTypes, [DesktopNext]_desktopVars
  PROVE  DataTypes'
<1> USE DEF DataTypes, childVars, opVars, dataVars, Fresh, Torn, Removed, Absent
<1>1. CASE Launching \/ UNCHANGED desktopVars
  BY <1>1 DEF Launching, desktopVars, hubVars
<1>2. CASE \/ ApiListens \/ ApiDies \/ BootApi \/ BootWait \/ BootWindow \/ BootBreaks
           \/ ShutdownAwaited \/ ShutdownOvertaken \/ ShutdownApi \/ ShutdownPostgres \/ Cleanup
  BY <1>2 DEF ApiListens, ApiDies, BootApi, BootWait, BootWindow, BootBreaks,
              ShutdownAwaited, ShutdownOvertaken, ShutdownApi, ShutdownPostgres, Cleanup
<1>3. CASE Ingest
  BY <1>3 DEF Ingest
<1>4. CASE BootPostgres
  BY <1>4 DEF BootPostgres, PostgresStarts, PostgresRefuses
<1>5. CASE Exit \/ ExitToInstall \/ PowerLoss
  BY <1>5 DEF Exit, ExitToInstall, PowerLoss, Gone
<1>6. ASSUME NEW o \in Ops, OpStep(o) \/ Begin(o, "export") \/ Begin(o, "restore")
      PROVE  DataTypes'
  <2>1. CASE OpStartPostgres(o)
    BY <2>1 DEF OpStartPostgres, PostgresStarts, PostgresRefuses
  <2>2. CASE Archive(o)
    BY <2>2 DEF Archive
  <2>3. CASE Apply(o)
    BY <2>3 DEF Apply, Restored
  <2>4. CASE CopyThrows(o)
    BY <2>4 DEF CopyThrows
  <2>5. CASE \/ OpStopApi(o) \/ OpStopPostgres(o) \/ OpStartApi(o) \/ OpWait(o)
             \/ Begin(o, "export") \/ Begin(o, "restore")
    BY <2>5 DEF OpStopApi, OpStopPostgres, OpStartApi, OpWait, Begin
  <2> QED
    BY <1>6, <2>1, <2>2, <2>3, <2>4, <2>5 DEF OpStep
<1> QED
  BY <1>1, <1>2, <1>3, <1>4, <1>5, <1>6 DEF DesktopNext

LEMMA DataStep ==
  ASSUME ColdInv, DataInv, [DesktopNext]_desktopVars
  PROVE  DataInv'
<1> USE DEF childVars, quitVars, dataVars, opVars
<1>1. DataTypes'
  BY DataTypesStep DEF DataInv
<1> SUFFICES ASSUME AtRest'
             PROVE  DataKept'
  BY <1>1 DEF DataInv
<1>2. AtRest /\ DataKept /\ DataTypes
  BY HistoryStays DEF DataInv
<1>3. ASSUME UNCHANGED <<db, raw, zip>>,
             \A o \in Ops : \/ op'[o] = op[o]
                            \/ /\ op'[o].pc \notin {"fillDb", "copyRaw"}
                               /\ ~Replacing(o)
      PROVE  DataKept'
  BY <1>2, <1>3, DataFrame DEF DataInv
<1>4. \A o \in Ops : ~Underway(o) => op[o].pc = "idle" /\ ~Replacing(o)
  BY DEF Underway, Replacing
<1>5. CASE Launching \/ UNCHANGED desktopVars
  BY <1>3, <1>5 DEF Launching, desktopVars, hubVars
<1>6. CASE \/ ApiListens \/ ApiDies \/ BootApi \/ BootWait \/ BootWindow \/ BootBreaks
           \/ ShutdownAwaited \/ ShutdownOvertaken \/ ShutdownApi \/ ShutdownPostgres \/ Cleanup
  BY <1>3, <1>6 DEF ApiListens, ApiDies, BootApi, BootWait, BootWindow, BootBreaks,
              ShutdownAwaited, ShutdownOvertaken, ShutdownApi, ShutdownPostgres, Cleanup
<1>7. CASE Ingest
  <2>1. /\ pg = "up" /\ db \in Nat /\ raw \in Nat /\ db' = db + 1 /\ raw' = raw + 1
        /\ UNCHANGED <<zip, op>>
    BY <1>7 DEF Ingest
  <2>2. \A o \in Ops : op[o].pc \notin Copying
    BY <1>2, <2>1 DEF ColdInv, CopyIsCold, AtRest
  <2>3. \A o \in Ops : ~Replacing(o)
    BY <2>2 DEF Replacing, Copying
  <2>4. \A o \in Ops : OpData(o)' /\ ~Replacing(o)'
    BY <2>1, <2>2, <2>3 DEF OpData, Replacing, Copying
  <2>5. db' = raw' /\ raw' \in Nat
    BY <1>2, <2>1, <2>3 DEF DataKept
  <2> QED
    BY <1>2, <2>1, <2>4, <2>5 DEF DataKept, ZipBelongs
<1>8. CASE BootPostgres
  <2>1. /\ stage = "boot" /\ UNCHANGED <<raw, zip, op>>
        /\ (PostgresStarts \/ PostgresRefuses)
    BY <1>8 DEF BootPostgres
  <2>2. \A o \in Ops : ~Replacing(o)
    BY <1>4, <2>1 DEF ColdInv, OpTypes
  <2>3. db' = db
    BY <1>2, <2>1, <2>2, StartKeepsData
  <2> QED
    BY <1>3, <2>1, <2>3
<1>9. CASE Exit \/ ExitToInstall \/ PowerLoss
  <2>1. /\ op' = [o \in Ops |-> NoOp] /\ UNCHANGED <<db, raw, zip>>
        /\ cut' = (cut \/ \E o \in Ops : Underway(o) /\ op[o].what = "restore")
    BY <1>9 DEF Exit, ExitToInstall, PowerLoss, Gone
  <2>2. \A o \in Ops : ~Replacing(o)
    BY <1>4, <2>1 DEF AtRest, Replacing
  <2> QED
    BY <1>3, <2>1, <2>2, OpsGone
<1>10. ASSUME NEW o \in Ops, NEW what \in {"export", "restore"}, Begin(o, what)
       PROVE  DataKept'
  <2>1. /\ op' = [op EXCEPT ![o] = [what |-> what, pc |-> "stopApi"]]
        /\ ~Underway(o) /\ UNCHANGED <<db, raw, zip>>
    BY <1>10 DEF Begin
  <2>2. op'[o].pc = "stopApi" /\ \A p \in Ops \ {o} : op'[p] = op[p]
    BY <2>1 DEF ColdInv, OpTypes
  <2> QED
    BY <1>3, <1>4, <2>1, <2>2
<1>11. ASSUME NEW o \in Ops, Underway(o),
              NEW pc \in {"idle", "stopPg", "copyDb", "fillDb", "copyRaw",
                          "startPg", "failPg", "startApi", "failApi", "wait"},
              To(o, pc)
       PROVE  /\ op'[o].pc = pc /\ op'[o].what = op[o].what
              /\ \A p \in Ops \ {o} : /\ op'[p] = op[p] /\ op[p].pc = "idle"
                                      /\ ~Replacing(p) /\ ~Replacing(p)' /\ OpData(p)'
  <2>1. /\ op'[o].pc = pc /\ op'[o].what = op[o].what
        /\ \A p \in Ops \ {o} : op'[p] = op[p]
    BY <1>11, OpMoves DEF ColdInv
  <2>2. \A p \in Ops \ {o} : op[p].pc = "idle"
    BY <1>2, <1>4, <1>11 DEF ColdInv, OneAtATime, AtRest
  <2> QED
    BY <2>1, <2>2 DEF OpData, Replacing
<1>12. ASSUME NEW o \in Ops, OpStep(o)
       PROVE  DataKept'
  <2>1. CASE OpStopApi(o) \/ OpStopPostgres(o) \/ OpStartApi(o) \/ OpWait(o)
    <3>1. Underway(o) /\ ~Replacing(o) /\ UNCHANGED <<db, raw, zip>>
      BY <2>1 DEF OpStopApi, OpStopPostgres, OpStartApi, OpWait, Underway, Replacing
    <3>2. op'[o].pc \notin {"fillDb", "copyRaw"} /\ \A p \in Ops \ {o} : op'[p] = op[p]
      BY <1>11, <2>1, <3>1 DEF OpStopApi, OpStopPostgres, OpStartApi, OpWait
    <3> QED
      BY <1>3, <3>1, <3>2
  <2>2. CASE OpStartPostgres(o)
    <3>1. /\ Underway(o) /\ ~Replacing(o) /\ UNCHANGED <<raw, zip>>
          /\ (PostgresStarts \/ PostgresRefuses)
      BY <2>2 DEF OpStartPostgres, Underway, Replacing
    <3>2. /\ op'[o].pc \notin {"fillDb", "copyRaw"}
          /\ \A p \in Ops \ {o} : op'[p] = op[p] /\ ~Replacing(p)
      BY <1>11, <2>2, <3>1 DEF OpStartPostgres
    <3>3. db' = db
      BY <1>2, <3>1, <3>2, StartKeepsData
    <3> QED
      BY <1>3, <3>1, <3>2, <3>3
  <2>3. CASE CopyThrows(o)
    <3>1. /\ Underway(o) /\ To(o, "failPg") /\ UNCHANGED zip
          /\ op[o].pc # "fillDb" /\ ~Replacing(o)
      BY <2>3 DEF CopyThrows, AtRest, Underway, Replacing
    <3>2. UNCHANGED <<db, raw>>
      BY <2>3, <3>1 DEF CopyThrows, Replacing
    <3>3. op'[o].pc = "failPg" /\ \A p \in Ops \ {o} : op'[p] = op[p]
      BY <1>11, <3>1
    <3> QED
      BY <1>3, <3>1, <3>2, <3>3
  <2>4. CASE Archive(o)
    <3>1. Underway(o) /\ op[o].what = "export" /\ UNCHANGED <<db, raw>> /\ ~Replacing(o)
      BY <2>4 DEF Archive, Underway, Replacing
    <3>2. CASE op[o].pc = "copyDb" /\ To(o, "copyRaw") /\ zip' = [db |-> db, raw |-> Absent]
      <4>1. OpData(o)' /\ ~Replacing(o)' /\ ZipBelongs'
        BY <1>11, <3>1, <3>2 DEF OpData, Replacing, ZipBelongs
      <4>2. \A p \in Ops : OpData(p)' /\ ~Replacing(p)' /\ ~Replacing(p)
        BY <1>11, <3>1, <3>2, <4>1
      <4> QED
        BY <1>2, <3>1, <4>1, <4>2 DEF DataKept
    <3>3. CASE op[o].pc = "copyRaw" /\ To(o, "startPg") /\ zip' = [zip EXCEPT !.raw = raw]
      <4>1. op'[o].pc = "startPg" /\ \A p \in Ops \ {o} : ~Replacing(p) /\ ~Replacing(p)' /\ OpData(p)'
        BY <1>11, <3>1, <3>3
      <4>2. db = raw /\ zip.db = db /\ raw \in Nat
        BY <1>2, <3>1, <3>3, <4>1 DEF DataKept, OpData
      <4>3. ZipBelongs'
        BY <1>2, <3>3, <4>2 DEF ZipBelongs, DataTypes
      <4>4. \A p \in Ops : OpData(p)' /\ ~Replacing(p)'
        BY <4>1 DEF OpData, Replacing
      <4> QED
        BY <1>2, <3>1, <4>2, <4>3, <4>4 DEF DataKept
    <3> QED
      BY <2>4, <3>2, <3>3 DEF Archive
  <2>5. CASE Apply(o)
    <3>1. Underway(o) /\ op[o].what = "restore" /\ UNCHANGED zip
      BY <2>5 DEF Apply, Underway
    <3>2. CASE op[o].pc = "copyDb" /\ Unpacked /\ To(o, "fillDb") /\ UNCHANGED raw
      <4>1. Replacing(o)' /\ OpData(o)' /\ ZipBelongs'
        BY <1>2, <1>11, <3>1, <3>2 DEF OpData, Replacing, Unpacked, DataKept, ZipBelongs
      <4> QED
        BY <1>2, <1>11, <3>1, <3>2, <4>1 DEF DataKept
    <3>3. CASE op[o].pc = "fillDb" /\ db' = zip.db /\ To(o, "copyRaw") /\ UNCHANGED raw
      <4>1. Replacing(o) /\ zip.raw # Absent
        BY <1>2, <3>1, <3>3 DEF Replacing, OpData, DataKept
      <4>2. Replacing(o)' /\ OpData(o)' /\ ZipBelongs'
        BY <1>2, <1>11, <3>1, <3>3, <4>1 DEF OpData, Replacing, DataKept, ZipBelongs
      <4> QED
        BY <1>2, <1>11, <3>1, <3>3, <4>2 DEF DataKept
    <3>4. CASE op[o].pc = "copyRaw" /\ raw' = Restored /\ To(o, "startPg") /\ UNCHANGED db
      <4>0. raw' = zip.raw
        BY <2>5, <3>4 DEF Apply, AtRest
      <4>1. zip.raw # Absent /\ db = zip.db
        BY <1>2, <3>1, <3>4 DEF Replacing, OpData, DataKept
      <4>2. raw' \in Nat /\ db' = raw' /\ ZipBelongs'
        BY <1>2, <3>1, <3>4, <4>0, <4>1 DEF DataKept, ZipBelongs
      <4>3. ~Replacing(o)' /\ OpData(o)'
        BY <1>11, <3>1, <3>4 DEF Replacing, OpData
      <4> QED
        BY <1>11, <3>1, <3>4, <4>2, <4>3 DEF DataKept
    <3> QED
      BY <2>5, <3>2, <3>3, <3>4 DEF Apply
  <2> QED
    BY <1>12, <2>1, <2>2, <2>3, <2>4, <2>5 DEF OpStep
<1> QED
  BY <1>5, <1>6, <1>7, <1>8, <1>9, <1>10, <1>12 DEF DesktopNext

\* The database and the files belong together, whatever quits, crashes, failed
\* exports and restarts happened, unless a restore was cut short, two operations
\* ran into each other, the restored backup held no files and left the hub's own in
\* place, or a Postgres was lost (backup-core.ts:135-145).
THEOREM DataBelongTogether == DesktopSpec => []DataBelongs
<1>1. ColdInv /\ DataInv /\ [DesktopNext]_desktopVars => ColdInv' /\ DataInv'
  BY ColdStep, DataStep
<1>2. DataInv => DataBelongs
  <2> SUFFICES ASSUME DataInv, AtRest, \A o \in Ops : op[o].what = "restore" => ~Underway(o)
               PROVE  db = raw
    BY DEF DataBelongs, AtRest
  <2>1. \A o \in Ops : ~Replacing(o)
    BY DEF Replacing, Underway
  <2> QED
    BY <2>1 DEF DataInv, DataKept
<1> QED
  BY <1>1, <1>2, ColdInit, DataInit, PTL DEF DesktopSpec

-----------------------------------------------------------------------------
(* What a tab shows.                                                       *)

DataShape(d) == d = [rows |-> d.rows, beyond |-> d.beyond, from |-> d.from, ask |-> d.ask,
                     knows |-> d.knows, since |-> d.since]

Matches(ask, a) ==
  /\ ask.status \in {All, "active"}
  /\ ask.partner \in {All, PartnerOf[a]} /\ ask.type \in {All, TypeOf[a]}

\* No active alert of organization o that is asked for is missing.
NoneMissing(o, ask, known) ==
  \A a \in Alerts : alert[a] = "active" /\ OrgOf[a] = o /\ Matches(ask, a) => a \in known

\* None is left out but by the limit, and by that only of a full list.
FullOrWhole(rows, beyond) == beyond # {} => Cardinality(rows) = MaxList

\* The answer d under key k.
DataOK(k, d) ==
  /\ DataShape(d) /\ d.ask = k.ask
  /\ token = org => d.from = org
  /\ k.list = "alerts" => /\ NoneMissing(d.from, d.ask, d.rows \cup d.beyond \cup d.since)
                          /\ FullOrWhole(d.rows, d.beyond)

FetchOK(f) ==
  /\ f = [key |-> f.key, ask |-> f.ask, from |-> f.from, data |-> f.data, missed |-> f.missed]
  /\ f.key.org = org /\ f.key.ask = f.ask
  /\ token = org => f.from = org
  /\ f.data # None => DataOK(f.key, f.data)

EntryOK(k, c) ==
  /\ c = [data |-> c.data, failed |-> c.failed, missed |-> c.missed]
  /\ k.org = org
  /\ c.data # None => DataOK(k, c.data)

CacheInv ==
  /\ alert \in [Alerts -> {"none", "active", "acknowledged"}]
  /\ \A f \in fetches : FetchOK(f)
  /\ \A k \in DOMAIN cache : EntryOK(k, cache[k])

\* What Ack all may take.
MayTake(x, a) ==
  \/ a \in x.rows \cup x.since
  \/ x.filter.type \notin {All, TypeOf[a]}
  \/ a \in x.beyond /\ Cardinality(x.rows) = MaxList

ActOK(x) ==
  /\ x = [slot |-> x.slot, kind |-> x.kind, target |-> x.target, lists |-> x.lists, org |-> x.org,
          from |-> x.from, filter |-> x.filter, rows |-> x.rows, beyond |-> x.beyond, since |-> x.since,
          at |-> x.at, targets |-> x.targets, nr |-> x.nr]
  /\ x.lists = Affects(x.slot)
  /\ x.at \in {"sent", "acking", "done"}
  /\ x.at = "done" => x.nr \in done
  /\ x.at = "sent" /\ x.kind = "bulk" =>
       /\ x.filter.status = "active"
       /\ x.from = x.org => /\ NoneMissing(x.from, x.filter, x.rows \cup x.beyond \cup x.since)
                            /\ FullOrWhole(x.rows, x.beyond)
  /\ x.at = "acking" /\ x.from = x.org => \A a \in x.targets : MayTake(x, a)

ActsInv == \A x \in acts : ActOK(x)

\* What is known of act nr: by an answer under way, and by what is shown.
KnowsFetch(h, f) == f.key.list \in Affects(h.slot) /\ f.data # None => h.nr \in f.data.knows \cup f.missed

KnowsEntry(h, k) ==
  k.list \in Affects(h.slot) /\ ~ cache[k].failed /\ cache[k].data # None =>
    \/ h.nr \in cache[k].data.knows \cup cache[k].missed
    \/ \E f \in fetches : f.key = k
    \/ \A q \in Observed : q.key # k

HeardOK(h) ==
  /\ h.nr \in done
  /\ h.org = org => /\ \A f \in fetches : KnowsFetch(h, f)
                    /\ \A k \in DOMAIN cache : KnowsEntry(h, k)

HeardInv == \A h \in heard : HeardOK(h)

DeskInv == CacheInv /\ ActsInv /\ HeardInv


LEMMA QueryIs ==
  ASSUME NEW list, NEW ask
  PROVE  /\ Query(list, ask).key.org = org /\ Query(list, ask).key.ask = ask
         /\ Query(list, ask).key.list = list /\ Query(list, ask).ask = ask
BY DEF Query, Key

\* What is observed is asked for the organization that was rendered.
LEMMA ObservedIs ==
  ASSUME NEW q \in Observed
  PROVE  q.key.org = org /\ q.key.ask = q.ask
<1>1. \E list, ask : q = Query(list, ask)
  BY DEF Observed, ListObserved, BellQuery, PageQuery, ListQuery, TimelineQuery, NotesQuery
<1> QED BY <1>1, QueryIs

LEMMA ObservedIsPrimed ==
  ASSUME org' = org, NEW q \in Observed'
  PROVE  q.key.org = org /\ q.key.ask = q.ask
<1>1. q.key.org = org' /\ q.key.ask = q.ask
  <2>1. \E list, ask : q = Query(list, ask)'
    BY DEF Observed, ListObserved, BellQuery, PageQuery, ListQuery, TimelineQuery, NotesQuery
  <2>2. \A list, ask : /\ Query(list, ask)'.key.org = org' /\ Query(list, ask)'.key.ask = ask
                       /\ Query(list, ask)'.ask = ask
    BY DEF Query, Key
  <2> QED BY <2>1, <2>2
<1> QED BY <1>1

\* Less is observed where less is shown and no more is expanded.
LEMMA LessIsObserved ==
  ASSUME UNCHANGED <<ready, org, screen, url, pinned, filter>>, open' \in {open, None},
         \A q : Shown(q)' => Shown(q)
  PROVE  Observed' \subseteq Observed
<1>1. \A list, ask : Query(list, ask)' = Query(list, ask)
  BY DEF Query, Key
<1>2. OrdersAsk' = OrdersAsk
  BY DEF OrdersAsk
<1>3. BellQuery' = BellQuery /\ PageQuery' = PageQuery /\ ListQuery' = ListQuery
  BY <1>1, <1>2 DEF BellQuery, PageQuery, ListQuery
<1>4. open' # None => /\ open # None /\ TimelineQuery' = TimelineQuery /\ NotesQuery' = NotesQuery
  BY <1>1 DEF TimelineQuery, NotesQuery
<1>5. open' # None /\ Shown(TimelineQuery)' => Shown(TimelineQuery)
  <2>1. \A q : Shown(q)' <=> (/\ q.key \in DOMAIN cache' /\ cache'[q.key].data # None
                              /\ ~ (q.key \in DOMAIN cache' /\ cache'[q.key].failed))
    BY DEF Shown, HasData, Failed
  <2>2. Shown(TimelineQuery)' <=> (/\ TimelineQuery'.key \in DOMAIN cache' /\ cache'[TimelineQuery'.key].data # None
                              /\ ~ (TimelineQuery'.key \in DOMAIN cache' /\ cache'[TimelineQuery'.key].failed))
    BY DEF Shown, HasData, Failed
  <2> QED BY <1>4, <2>1, <2>2
<1>6. ListObserved' \subseteq ListObserved
  <2>1. CASE screen = "alerts"
    BY <1>3, <2>1 DEF ListObserved
  <2>2. CASE screen # "alerts" /\ open' = None
    BY <1>3, <2>2 DEF ListObserved
  <2>3. CASE screen # "alerts" /\ open' # None
    <3>1. ListObserved = {ListQuery} \cup {TimelineQuery} \cup IF Shown(TimelineQuery) THEN {NotesQuery} ELSE {}
      BY <1>4, <2>3 DEF ListObserved
    <3>2. ListObserved' = {ListQuery'} \cup {TimelineQuery'} \cup IF Shown(TimelineQuery)' THEN {NotesQuery'} ELSE {}
      BY <2>3 DEF ListObserved
    <3> QED BY <1>3, <1>4, <1>5, <2>3, <3>1, <3>2
  <2> QED BY <2>1, <2>2, <2>3
<1> QED BY <1>3, <1>6 DEF Observed

LEMMA ShownStays == ASSUME cache' = cache PROVE \A q : Shown(q)' => Shown(q)
BY DEF Shown, HasData, Failed

\* Answers stay what they are while nothing becomes active and no other
\* organization is rendered.
LEMMA NoneBecomesMissing ==
  ASSUME NEW o, NEW ask, NEW known, NoneMissing(o, ask, known),
         \A a \in Alerts : alert'[a] = "active" => alert[a] = "active"
  PROVE  NoneMissing(o, ask, known)'
BY DEF NoneMissing, Matches

LEMMA DataStays ==
  ASSUME NEW k, NEW d, DataOK(k, d), token' = org' => token = org, org' = org,
         \A a \in Alerts : alert'[a] = "active" => alert[a] = "active"
  PROVE  DataOK(k, d)'
<1>1. k.list = "alerts" => NoneMissing(d.from, d.ask, d.rows \cup d.beyond \cup d.since)'
  BY NoneBecomesMissing DEF DataOK
<1> QED BY <1>1 DEF DataOK, FullOrWhole

LEMMA FetchStays ==
  ASSUME NEW f, FetchOK(f), token' = org' => token = org, org' = org,
         \A a \in Alerts : alert'[a] = "active" => alert[a] = "active"
  PROVE  FetchOK(f)'
BY DataStays DEF FetchOK

LEMMA EntryStays ==
  ASSUME NEW k, NEW c, EntryOK(k, c), token' = org' => token = org, org' = org,
         \A a \in Alerts : alert'[a] = "active" => alert[a] = "active"
  PROVE  EntryOK(k, c)'
BY DataStays DEF EntryOK

LEMMA FetchBegins ==
  ASSUME NEW q, q.key.org = org, q.key.ask = q.ask
  PROVE  FetchOK(Fetch(q)) /\ Fetch(q).key = q.key /\ Fetch(q).data = None
BY DEF Fetch, FetchOK

\* The fetches after a step that leaves cache and server alone.
LEMMA CacheKept ==
  ASSUME CacheInv, \A f \in fetches' : FetchOK(f), cache' = cache, org' = org,
         token' = org' => token = org,
         alert' \in [Alerts -> {"none", "active", "acknowledged"}],
         \A a \in Alerts : alert'[a] = "active" => alert[a] = "active"
  PROVE  CacheInv'
<1>1. \A f \in fetches' : FetchOK(f)'
  BY FetchStays
<1>2. \A k \in DOMAIN cache : EntryOK(k, cache[k])'
  BY EntryStays DEF CacheInv
<1> QED BY <1>1, <1>2 DEF CacheInv

LEMMA WithIsOK ==
  ASSUME NEW fs, NEW newly, \A f \in fs : FetchOK(f), \A q \in newly : q.key.org = org /\ q.key.ask = q.ask
  PROVE  /\ \A f \in With(fs, newly) : FetchOK(f)
         /\ fs \subseteq With(fs, newly)
         /\ \A f \in With(fs, newly) : f \in fs \/ f.data = None
         /\ \A q \in newly : \E f \in With(fs, newly) : f.key = q.key
BY FetchBegins DEF With


\* What is known of an act stays known, where what is fetched anew has no answer
\* yet, no fetch of a key goes without another, and no more is observed.
LEMMA HeardStays ==
  ASSUME HeardInv, UNCHANGED <<org, cache, heard>>, done \subseteq done', fetches \subseteq fetches',
         \A f \in fetches' : f \in fetches \/ f.data = None,
         \A q \in Observed' : q \in Observed \/ \E f \in fetches' : f.key = q.key
  PROVE  HeardInv'
<1> SUFFICES ASSUME NEW h \in heard
             PROVE  HeardOK(h)'
  BY DEF HeardInv
<1>1. HeardOK(h)
  BY DEF HeardInv
<1>2. ASSUME h.org = org, NEW f \in fetches'
      PROVE  KnowsFetch(h, f)'
  BY <1>1, <1>2 DEF HeardOK, KnowsFetch, Affects
<1>3. ASSUME h.org = org, NEW k \in DOMAIN cache
      PROVE  KnowsEntry(h, k)'
  <2>1. KnowsEntry(h, k)
    BY <1>1, <1>3 DEF HeardOK
  <2>2. (\A q \in Observed : q.key # k) => (\A q \in Observed' : q.key # k) \/ \E f \in fetches' : f.key = k
    OBVIOUS
  <2> QED BY <2>1, <2>2 DEF KnowsEntry, Affects
<1> QED BY <1>1, <1>2, <1>3 DEF HeardOK

\* Steps that touch neither what the tab has nor what it observes.
TabStill ==
  /\ UNCHANGED <<org, ready, cache, fetches, filter, listVars, heard>>
  /\ token' = token \/ token' # org
  /\ done \subseteq done'

LEMMA TabStandsStill ==
  ASSUME CacheInv, HeardInv, TabStill,
         alert' \in [Alerts -> {"none", "active", "acknowledged"}],
         \A a \in Alerts : alert'[a] = "active" => alert[a] = "active"
  PROVE  CacheInv' /\ HeardInv'
<1>1. Observed' \subseteq Observed
  BY LessIsObserved, ShownStays DEF TabStill, listVars
<1>2. HeardInv'
  BY <1>1, HeardStays DEF TabStill
<1>3. CacheInv'
  BY CacheKept DEF TabStill, CacheInv
<1> QED BY <1>2, <1>3

LEMMA ActStays ==
  ASSUME NEW x, ActOK(x), done \subseteq done',
         \A a \in Alerts : alert'[a] = "active" => alert[a] = "active"
  PROVE  ActOK(x)'
<1> DEFINE known == x.rows \cup x.beyond \cup x.since
<1>1. NoneMissing(x.from, x.filter, known) => NoneMissing(x.from, x.filter, known)'
  BY NoneBecomesMissing
<1>2. Affects(x.slot)' = Affects(x.slot)
  BY DEF Affects
<1> QED BY <1>1, <1>2 DEF ActOK, MayTake, FullOrWhole

LEMMA ActsKept ==
  ASSUME \A x \in acts' : ActOK(x), done \subseteq done',
         \A a \in Alerts : alert'[a] = "active" => alert[a] = "active"
  PROVE  ActsInv'
BY ActStays DEF ActsInv

-----------------------------------------------------------------------------
\* The steps of the server and of other people.

LEMMA AcknowledgeOK ==
  ASSUME CacheInv, NEW as, Acknowledge(as)
  PROVE  /\ alert' \in [Alerts -> {"none", "active", "acknowledged"}]
         /\ \A a \in Alerts : alert'[a] = "active" => alert[a] = "active"
BY DEF Acknowledge, CacheInv

LEMMA SameAlerts ==
  ASSUME CacheInv, alert' = alert
  PROVE  /\ alert' \in [Alerts -> {"none", "active", "acknowledged"}]
         /\ \A a \in Alerts : alert'[a] = "active" => alert[a] = "active"
BY DEF CacheInv

\* An act that has come further, beside the others.
LEMMA AtIsOK ==
  ASSUME ActsInv, NEW x \in acts, NEW at, NEW targets, At(x, at, targets),
         at \in {"acking", "done"}, at = "done" => x.nr \in done',
         at = "acking" /\ x.from = x.org => \A a \in targets : MayTake(x, a),
         done \subseteq done',
         \A a \in Alerts : alert'[a] = "active" => alert[a] = "active"
  PROVE  ActsInv'
<1>1. ActOK(x) /\ \A y \in acts : ActOK(y)'
  BY ActStays DEF ActsInv
<1>2. PICK y : y = [x EXCEPT !.at = at, !.targets = targets]
  OBVIOUS
<1>3. /\ y = [slot |-> y.slot, kind |-> y.kind, target |-> y.target, lists |-> y.lists, org |-> y.org,
              from |-> y.from, filter |-> y.filter, rows |-> y.rows, beyond |-> y.beyond,
              since |-> y.since, at |-> y.at, targets |-> y.targets, nr |-> y.nr]
      /\ y.slot = x.slot /\ y.lists = x.lists /\ y.org = x.org /\ y.from = x.from /\ y.filter = x.filter
      /\ y.rows = x.rows /\ y.beyond = x.beyond /\ y.since = x.since /\ y.nr = x.nr /\ y.at = at /\ y.targets = targets
  BY <1>1, <1>2 DEF ActOK
<1>4. Affects(y.slot)' = Affects(x.slot)
  BY <1>3 DEF Affects
<1>5. ActOK(y)'
  BY <1>1, <1>3, <1>4 DEF ActOK, MayTake
<1>6. acts' = (acts \ {x}) \cup {y}
  BY <1>2 DEF At
<1> QED BY <1>1, <1>5, <1>6 DEF ActsInv

LEMMA ServeActOK ==
  ASSUME DeskInv, NEW x \in acts, ServeAct(x), UNCHANGED listVars
  PROVE  DeskInv'
<1>1. /\ UNCHANGED <<tabVars, filter, heard>> /\ done' = done \cup {x.nr} /\ At(x, "done", {})
      /\ alert' \in [Alerts -> {"none", "active", "acknowledged"}]
      /\ \A a \in Alerts : alert'[a] = "active" => alert[a] = "active"
  BY AcknowledgeOK DEF ServeAct, DeskInv
<1>2. CacheInv' /\ HeardInv'
  BY <1>1, TabStandsStill DEF TabStill, tabVars, DeskInv
<1>3. ActsInv'
  BY <1>1, AtIsOK DEF DeskInv
<1> QED BY <1>2, <1>3 DEF DeskInv

LEMMA BeginBulkOK ==
  ASSUME DeskInv, NEW x \in acts, BeginBulk(x), UNCHANGED listVars
  PROVE  DeskInv'
<1> PICK as \in BulkTargets(x) : At(x, "acking", as)
  BY DEF BeginBulk
<1>1. /\ UNCHANGED <<tabVars, filter, heard, done, alert>>
      /\ x.at = "sent" /\ x.kind = "bulk"
      /\ alert' \in [Alerts -> {"none", "active", "acknowledged"}]
      /\ \A a \in Alerts : alert'[a] = "active" => alert[a] = "active"
  BY SameAlerts DEF BeginBulk, DeskInv
<1>2. CacheInv' /\ HeardInv'
  BY <1>1, TabStandsStill DEF TabStill, tabVars, DeskInv
<1>3. ASSUME x.from = x.org, NEW a \in as
      PROVE  MayTake(x, a)
  <2>1. /\ x.filter.status = "active" /\ NoneMissing(x.from, x.filter, x.rows \cup x.beyond \cup x.since)
        /\ FullOrWhole(x.rows, x.beyond)
    BY <1>1, <1>3 DEF DeskInv, ActsInv, ActOK
  <2>2. PICK ask : ask = [AllActive EXCEPT !.partner = x.filter.partner]
    OBVIOUS
  <2>3. ask.status = "active" /\ ask.partner = x.filter.partner
    BY <2>2 DEF AllActive, Filter
  <2>4. a \in Found(x.from, ask)
    BY <1>3, <2>2 DEF BulkTargets, Listed
  <2>5. a \in Alerts /\ OrgOf[a] = x.from /\ alert[a] = "active" /\ x.filter.partner \in {All, PartnerOf[a]}
    BY <2>3, <2>4, TriageAssumption DEF Found
  <2>6. x.filter.type \in {All, TypeOf[a]} => a \in x.rows \cup x.beyond \cup x.since
    BY <2>1, <2>5 DEF NoneMissing, Matches
  <2> QED BY <2>1, <2>6 DEF MayTake, FullOrWhole
<1>4. ActsInv'
  BY <1>1, <1>3, AtIsOK DEF DeskInv
<1> QED BY <1>2, <1>4 DEF DeskInv

LEMMA AckNextOK ==
  ASSUME DeskInv, NEW x \in acts, AckNext(x), UNCHANGED listVars
  PROVE  DeskInv'
<1>1. PICK a \in x.targets : Acknowledge({a}) /\ At(x, "acking", x.targets \ {a})
  BY DEF AckNext
<1>2. /\ UNCHANGED <<tabVars, filter, heard, done>> /\ x.at = "acking"
      /\ alert' \in [Alerts -> {"none", "active", "acknowledged"}]
      /\ \A b \in Alerts : alert'[b] = "active" => alert[b] = "active"
  BY <1>1, AcknowledgeOK DEF AckNext, DeskInv
<1>3. CacheInv' /\ HeardInv'
  BY <1>2, TabStandsStill DEF TabStill, tabVars, DeskInv
<1>4. x.from = x.org => \A b \in x.targets \ {a} : MayTake(x, b)
  BY <1>2 DEF DeskInv, ActsInv, ActOK
<1>5. ActsInv'
  BY <1>1, <1>2, <1>4, AtIsOK DEF DeskInv
<1> QED BY <1>3, <1>5 DEF DeskInv

LEMMA EndBulkOK ==
  ASSUME DeskInv, NEW x \in acts, EndBulk(x), UNCHANGED listVars
  PROVE  DeskInv'
<1>1. /\ UNCHANGED <<tabVars, filter, heard>> /\ done' = done \cup {x.nr} /\ At(x, "done", {})
      /\ alert' \in [Alerts -> {"none", "active", "acknowledged"}]
      /\ \A a \in Alerts : alert'[a] = "active" => alert[a] = "active"
  BY SameAlerts DEF EndBulk, DeskInv
<1>2. CacheInv' /\ HeardInv'
  BY <1>1, TabStandsStill DEF TabStill, tabVars, DeskInv
<1>3. ActsInv'
  BY <1>1, AtIsOK DEF DeskInv
<1> QED BY <1>2, <1>3 DEF DeskInv

LEMMA ActFailsOK ==
  ASSUME DeskInv, NEW x \in acts, ActFails(x), UNCHANGED listVars
  PROVE  DeskInv'
<1>1. /\ UNCHANGED <<tabVars, alert, filter, heard, done>> /\ acts' \subseteq acts
      /\ alert' \in [Alerts -> {"none", "active", "acknowledged"}]
      /\ \A a \in Alerts : alert'[a] = "active" => alert[a] = "active"
  BY SameAlerts DEF ActFails, DeskInv
<1>2. CacheInv' /\ HeardInv'
  BY <1>1, TabStandsStill DEF TabStill, tabVars, DeskInv
<1>3. ActsInv'
  BY <1>1, ActsKept DEF DeskInv, ActsInv
<1> QED BY <1>2, <1>3 DEF DeskInv

LEMMA AckedElsewhereOK ==
  ASSUME DeskInv, NEW a \in Alerts, AckedElsewhere(a), UNCHANGED listVars
  PROVE  DeskInv'
<1>1. /\ UNCHANGED <<tabVars, filter, acts, heard, done>>
      /\ alert' \in [Alerts -> {"none", "active", "acknowledged"}]
      /\ \A b \in Alerts : alert'[b] = "active" => alert[b] = "active"
  BY DEF AckedElsewhere, DeskInv, CacheInv
<1>2. CacheInv' /\ HeardInv'
  BY <1>1, TabStandsStill DEF TabStill, tabVars, DeskInv
<1>3. ActsInv'
  BY <1>1, ActsKept DEF DeskInv, ActsInv
<1> QED BY <1>2, <1>3 DEF DeskInv

-----------------------------------------------------------------------------
\* The steps of the operator that ask the server for a change.

LEMMA DoIsOK ==
  ASSUME DeskInv, NEW slot, NEW kind, NEW target, NEW lists, NEW saw,
         Do(slot, kind, target, lists, saw), UNCHANGED listVars, lists = Affects(slot),
         kind = "bulk" => /\ filter.status = "active"
                          /\ token = org =>
                               /\ NoneMissing(token, filter, saw.rows \cup saw.beyond \cup saw.since)
                               /\ FullOrWhole(saw.rows, saw.beyond)
  PROVE  DeskInv'
<1>1. /\ UNCHANGED <<tabVars, alert, filter, done, heard>>
      /\ alert' \in [Alerts -> {"none", "active", "acknowledged"}]
      /\ \A a \in Alerts : alert'[a] = "active" => alert[a] = "active"
  BY SameAlerts DEF Do, DeskInv
<1>2. CacheInv' /\ HeardInv'
  BY <1>1, TabStandsStill DEF TabStill, tabVars, DeskInv
<1>3. PICK y : y = [slot |-> slot, kind |-> kind, target |-> target, lists |-> lists, org |-> org,
                    from |-> token, filter |-> filter, rows |-> saw.rows, beyond |-> saw.beyond,
                    since |-> saw.since, at |-> "sent", targets |-> {}, nr |-> count]
  OBVIOUS
<1>4. acts' = acts \cup {y}
  BY <1>3 DEF Do
<1>5. ActOK(y)
  BY <1>3 DEF ActOK
<1>6. ActsInv'
  BY <1>1, <1>4, <1>5, ActsKept DEF DeskInv, ActsInv
<1> QED BY <1>2, <1>6 DEF DeskInv

\* Ack all is for rows that the page shows, of which none was missing.
LEMMA AckAllOK ==
  ASSUME DeskInv, AckAll, UNCHANGED listVars
  PROVE  DeskInv'
<1>1. PICK k : k = PageQuery.key
  OBVIOUS
<1>2. k.ask = filter /\ k.list = "alerts"
  BY <1>1, QueryIs DEF PageQuery
<1>3. k \in DOMAIN cache /\ cache[k].data # None
  BY <1>1 DEF AckAll, Rows, HasData
<1>4. DataOK(k, cache[k].data)
  BY <1>3 DEF DeskInv, CacheInv, EntryOK
<1>5. PICK d : d = cache[k].data
  OBVIOUS
<1>6. token = org => NoneMissing(token, filter, d.rows \cup d.beyond \cup d.since) /\ FullOrWhole(d.rows, d.beyond)
  BY <1>5, <1>2, <1>3, <1>4 DEF DataOK
<1>7. Do("bulk", "bulk", None, {"alerts"}, d) /\ filter.status = "active"
  BY <1>1, <1>5 DEF AckAll, Act
<1>8. {"alerts"} = Affects("bulk")
  BY DEF Affects
<1> QED BY <1>6, <1>7, <1>8, DoIsOK

LEMMA OperateOK ==
  ASSUME DeskInv, Operate
  PROVE  DeskInv'
<1>1. UNCHANGED listVars
  BY DEF Operate
<1>2. CASE AckAll
  BY <1>1, <1>2, AckAllOK
<1>3. ASSUME NEW a \in Alerts, NEW k \in {"ack", "snooze"}, RowAct(a, k)
      PROVE  DeskInv'
  BY <1>1, <1>3, DoIsOK DEF RowAct, Act, Affects
<1>4. CASE RunDetection
  BY <1>1, <1>4, DoIsOK DEF RunDetection, Act, Affects
<1>5. ASSUME NEW a \in Alerts, BellAck(a)
      PROVE  DeskInv'
  BY <1>1, <1>5, DoIsOK DEF BellAck, Act, Affects
<1>6. ASSUME NEW r \in Files, RetryFile(r)
      PROVE  DeskInv'
  BY <1>1, <1>6, DoIsOK DEF RetryFile, Affects
<1>7. CASE RetryOrder
  BY <1>1, <1>7, DoIsOK DEF RetryOrder, Act, Affects
<1>8. CASE AddNote
  BY <1>1, <1>8, DoIsOK DEF AddNote, Act, Affects
<1>9. CASE DeleteNote
  BY <1>1, <1>9, DoIsOK DEF DeleteNote, Act, Affects
<1> QED BY <1>2, <1>3, <1>4, <1>5, <1>6, <1>7, <1>8, <1>9 DEF Operate

-----------------------------------------------------------------------------
\* The steps of the tab.

LEMMA ViewOK ==
  ASSUME DeskInv, View
  PROVE  DeskInv'
<1>1. UNCHANGED <<token, org, cache, alert, acts, done, heard>> /\ fetches' = With(fetches, Newly)
  <2>1. Move => UNCHANGED <<token, org, cache, alert, acts, done, heard>>
    BY DEF Move
  <2>2. \A u : Browse(u) => Move
    BY DEF Browse
  <2>3. \/ \E f \in Filters : SetFilter(f)
        \/ Move \/ PinsChange
        \/ MeAnswered /\ UNCHANGED triageVars
    <3>1. \A s : Goto(s) => Move
      BY DEF Goto
    <3>2. \A po : Expand(po) => Move
      BY DEF Expand
    <3>3. \A p : SetUrl("partner", p) => Move
      BY <2>2, Zenon DEF SetUrl
    <3>4. ClearAll => Move
      BY <2>2 DEF ClearAll
    <3>5. \A s, k : ViewTab(s, k) => Move
      BY <2>2 DEF ViewTab
    <3>6. \A s, p : ApplyView(s, p) => Move
      BY <2>2 DEF ApplyView
    <3>7. \A n : SetPage(n) => Move
      BY <2>2 DEF SetPage
    <3> QED BY <3>1, <3>2, <3>3, <3>4, <3>5, <3>6, <3>7 DEF View
  <2>4. UNCHANGED <<token, org, cache, alert, acts, done, heard>>
    BY <2>1, <2>3 DEF SetFilter, PinsChange, MeAnswered, triageVars
  <2> QED BY <2>4 DEF View, Observe
<1>2. /\ alert' \in [Alerts -> {"none", "active", "acknowledged"}]
      /\ \A a \in Alerts : alert'[a] = "active" => alert[a] = "active"
  BY <1>1, SameAlerts DEF DeskInv
<1>3. \A q \in Newly : q.key.org = org /\ q.key.ask = q.ask
  BY <1>1, ObservedIsPrimed DEF Newly
<1>4. /\ \A f \in fetches' : FetchOK(f)
      /\ fetches \subseteq fetches'
      /\ \A f \in fetches' : f \in fetches \/ f.data = None
      /\ \A q \in Newly : \E f \in fetches' : f.key = q.key
  BY <1>1, <1>3, WithIsOK DEF DeskInv, CacheInv
<1>5. CacheInv'
  BY <1>1, <1>2, <1>4, CacheKept DEF DeskInv
<1>6. HeardInv'
  BY <1>1, <1>4, HeardStays DEF DeskInv, Newly
<1>7. ActsInv'
  BY <1>1, <1>2, ActsKept DEF DeskInv, ActsInv
<1> QED BY <1>5, <1>6, <1>7 DEF DeskInv

LEMMA RefetchOK ==
  ASSUME DeskInv, NEW q \in Observed, Refetch(q), UNCHANGED <<triageVars, listVars>>
  PROVE  DeskInv'
<1>1. UNCHANGED <<token, org, ready, cache, alert, acts, done, heard>> /\ fetches' = With(fetches, {q})
  BY DEF Refetch, Observe, triageVars
<1>2. /\ alert' \in [Alerts -> {"none", "active", "acknowledged"}]
      /\ \A a \in Alerts : alert'[a] = "active" => alert[a] = "active"
  BY <1>1, SameAlerts DEF DeskInv
<1>3. q.key.org = org /\ q.key.ask = q.ask
  BY ObservedIs
<1>4. /\ \A f \in fetches' : FetchOK(f)
      /\ fetches \subseteq fetches'
      /\ \A f \in fetches' : f \in fetches \/ f.data = None
  BY <1>1, <1>3, WithIsOK DEF DeskInv, CacheInv
<1>5. CacheInv'
  BY <1>1, <1>2, <1>4, CacheKept DEF DeskInv
<1>6. Observed' \subseteq Observed
  BY <1>1, LessIsObserved, ShownStays DEF listVars, triageVars
<1>7. HeardInv'
  BY <1>1, <1>4, <1>6, HeardStays DEF DeskInv
<1>8. ActsInv'
  BY <1>1, <1>2, ActsKept DEF DeskInv, ActsInv
<1> QED BY <1>5, <1>7, <1>8 DEF DeskInv

LEMMA ChangeOrgOK ==
  ASSUME DeskInv, ChangeOrg
  PROVE  DeskInv'
<1>1. ASSUME NEW o \in Orgs, SwitchOrg(o), UNCHANGED <<triageVars, listVars>>
      PROVE  DeskInv'
  <2>1. TabStill /\ UNCHANGED <<alert, acts, done>>
    BY <1>1 DEF SwitchOrg, TabStill, triageVars
  <2>2. /\ alert' \in [Alerts -> {"none", "active", "acknowledged"}]
        /\ \A a \in Alerts : alert'[a] = "active" => alert[a] = "active"
    BY <2>1, SameAlerts DEF DeskInv
  <2>3. CacheInv' /\ HeardInv'
    BY <2>1, <2>2, TabStandsStill DEF DeskInv
  <2>4. ActsInv'
    BY <2>1, <2>2, ActsKept DEF DeskInv, ActsInv
  <2> QED BY <2>3, <2>4 DEF DeskInv
<1>2. ASSUME RenderOrg, UNCHANGED <<alert, acts, done, heard>>
      PROVE  DeskInv'
  <2>1. fetches' = {} /\ DOMAIN cache' = {}
    BY <1>2 DEF RenderOrg
  <2>2. CacheInv'
    BY <1>2, <2>1 DEF DeskInv, CacheInv
  <2>3. HeardInv'
    BY <1>2, <2>1 DEF DeskInv, HeardInv, HeardOK
  <2>4. ActsInv'
    BY <1>2, ActsKept DEF DeskInv, ActsInv
  <2> QED BY <2>2, <2>3, <2>4 DEF DeskInv
<1> QED BY <1>1, <1>2 DEF ChangeOrg

-----------------------------------------------------------------------------
\* The steps of the fetches.

\* What a list is answered leaves out no active row that was asked for, but for
\* the limit.
LEMMA AnswerOK ==
  ASSUME CacheInv, NEW f \in fetches, NEW d,
         d \in IF f.key.list = "alerts" THEN AlertsAnswers(f) ELSE {Answer(f, RowsOf(f.key.list), {})}
  PROVE  DataOK(f.key, d) /\ d.knows = done
<1>1. FetchOK(f) /\ alert \in [Alerts -> {"none", "active", "acknowledged"}]
  BY DEF CacheInv
<1>2. PICK rows, beyond :
        /\ d = Answer(f, rows, beyond)
        /\ f.key.list = "alerts" => rows \in Listed(f.from, f.ask) /\ beyond = Found(f.from, f.ask) \ rows
  BY DEF AlertsAnswers
<1>3. DataShape(d) /\ d.rows = rows /\ d.beyond = beyond /\ d.from = f.from /\ d.ask = f.ask /\ d.knows = done /\ d.since = {}
  BY <1>2 DEF Answer, DataShape
<1>4. ASSUME f.key.list = "alerts"
      PROVE  NoneMissing(d.from, d.ask, d.rows \cup d.beyond \cup d.since) /\ FullOrWhole(d.rows, d.beyond)
  <2>1. NoneMissing(d.from, d.ask, d.rows \cup d.beyond \cup d.since)
    BY <1>1, <1>2, <1>3, <1>4 DEF NoneMissing, Matches, Found
  <2>2. beyond # {} => Cardinality(rows) = MaxList
    BY <1>2, <1>4 DEF Listed
  <2> QED BY <1>3, <2>1, <2>2 DEF FullOrWhole
<1> QED BY <1>1, <1>3, <1>4 DEF DataOK, FetchOK

LEMMA ServeOK ==
  ASSUME DeskInv, NEW f \in fetches, Serve(f)
  PROVE  DeskInv'
<1>1. PICK d : /\ d \in IF f.key.list = "alerts" THEN AlertsAnswers(f) ELSE {Answer(f, RowsOf(f.key.list), {})}
               /\ ServeFetch(f, d)
  BY DEF Serve
<1>2. PICK g : g = [f EXCEPT !.data = d]
  OBVIOUS
<1>3. /\ UNCHANGED <<token, org, ready, cache, triageVars, listVars>>
      /\ fetches' = (fetches \ {f}) \cup {g}
  BY <1>1, <1>2 DEF Serve, ServeFetch
<1>4. DataOK(f.key, d) /\ d.knows = done
  BY <1>1, AnswerOK DEF DeskInv
<1>5. FetchOK(f)
  BY DEF DeskInv, CacheInv
<1>6. /\ g = [key |-> g.key, ask |-> g.ask, from |-> g.from, data |-> g.data, missed |-> g.missed]
      /\ g.key = f.key /\ g.ask = f.ask /\ g.from = f.from /\ g.data = d /\ g.missed = f.missed
  BY <1>2, <1>5 DEF FetchOK
<1>7. FetchOK(g)
  BY <1>4, <1>5, <1>6 DEF FetchOK
<1>8. UNCHANGED <<alert, acts, done, heard, filter>>
  BY <1>3 DEF triageVars
<1>9. /\ alert' \in [Alerts -> {"none", "active", "acknowledged"}]
      /\ \A a \in Alerts : alert'[a] = "active" => alert[a] = "active"
  BY <1>8, SameAlerts DEF DeskInv
<1>10. CacheInv'
  <2>1. \A x \in fetches' : FetchOK(x)
    BY <1>3, <1>7 DEF DeskInv, CacheInv
  <2> QED BY <2>1, <1>3, <1>8, <1>9, CacheKept DEF DeskInv
<1>11. ActsInv'
  BY <1>8, <1>9, ActsKept DEF DeskInv, ActsInv
<1>12. Observed' \subseteq Observed
  BY <1>3, <1>8, LessIsObserved, ShownStays DEF listVars
<1>13. ASSUME NEW h \in heard
       PROVE  HeardOK(h)'
  <2>1. HeardOK(h)
    BY DEF DeskInv, HeardInv
  <2>2. ASSUME h.org = org, NEW x \in fetches'
        PROVE  KnowsFetch(h, x)'
    BY <1>3, <1>4, <1>6, <2>1, <2>2 DEF HeardOK, KnowsFetch, Affects
  <2>3. ASSUME h.org = org, NEW k \in DOMAIN cache
        PROVE  KnowsEntry(h, k)'
    <3>1. KnowsEntry(h, k)
      BY <2>1, <2>3 DEF HeardOK
    <3>2. (\E x \in fetches : x.key = k) => \E x \in fetches' : x.key = k
      BY <1>3, <1>6
    <3> QED BY <1>3, <1>12, <3>1, <3>2 DEF KnowsEntry, Affects
  <2> QED BY <1>3, <1>8, <2>1, <2>2, <2>3 DEF HeardOK
<1>14. HeardInv'
  BY <1>8, <1>13 DEF HeardInv
<1> QED BY <1>10, <1>11, <1>14 DEF DeskInv

\* An entry that takes the place of what the cache has under a key.
LEMMA PutIsOK ==
  ASSUME CacheInv, NEW k, NEW c, Put(k, c), EntryOK(k, c), \A f \in fetches' : FetchOK(f),
         UNCHANGED <<token, org, alert>>
  PROVE  CacheInv'
<1>1. /\ alert' \in [Alerts -> {"none", "active", "acknowledged"}]
      /\ \A a \in Alerts : alert'[a] = "active" => alert[a] = "active"
  BY SameAlerts
<1>2. \A f \in fetches' : FetchOK(f)'
  BY <1>1, FetchStays
<1>3. EntryOK(k, c)' /\ \A x, e : x \in DOMAIN cache /\ e = cache[x] => EntryOK(x, e)'
  BY <1>1, EntryStays DEF CacheInv
<1>4. DOMAIN cache' = DOMAIN cache \cup {k} /\ cache'[k] = c /\ \A x \in DOMAIN cache : x # k => cache'[x] = cache[x]
  BY DEF Put
<1> QED BY <1>1, <1>2, <1>3, <1>4 DEF CacheInv

\* What is known of an act stays known where another entry is put under k.
LEMMA HeardWhilePut ==
  ASSUME HeardInv, NEW k, NEW c, Put(k, c), UNCHANGED <<org, heard, done>>,
         \A f \in fetches' : f \in fetches \/ f.data = None,
         \A f \in fetches : f.key # k => f \in fetches',
         \A q \in Observed' : q \in Observed \/ \E f \in fetches' : f.key = q.key,
         \A h \in heard : h.org = org /\ k.list \in Affects(h.slot) /\ ~ c.failed /\ c.data # None
           => h.nr \in c.data.knows \cup c.missed
  PROVE  HeardInv'
<1> SUFFICES ASSUME NEW h \in heard
             PROVE  HeardOK(h)'
  BY DEF HeardInv
<1>1. HeardOK(h)
  BY DEF HeardInv
<1>2. DOMAIN cache' = DOMAIN cache \cup {k} /\ cache'[k] = c /\ \A x \in DOMAIN cache : x # k => cache'[x] = cache[x]
  BY DEF Put
<1>3. ASSUME h.org = org, NEW f \in fetches'
      PROVE  KnowsFetch(h, f)'
  BY <1>1, <1>3 DEF HeardOK, KnowsFetch, Affects
<1>4. ASSUME h.org = org
      PROVE  KnowsEntry(h, k)'
  BY <1>2, <1>4 DEF KnowsEntry, Affects
<1>5. ASSUME h.org = org, NEW x \in DOMAIN cache, x # k
      PROVE  KnowsEntry(h, x)'
  <2>1. KnowsEntry(h, x)
    BY <1>1, <1>5 DEF HeardOK
  <2>2. cache'[x] = cache[x]
    BY <1>2, <1>5
  <2>3. (\E f \in fetches : f.key = x) => \E f \in fetches' : f.key = x
    BY <1>5
  <2>4. (\A q \in Observed : q.key # x) => (\A q \in Observed' : q.key # x) \/ \E f \in fetches' : f.key = x
    OBVIOUS
  <2> QED BY <2>1, <2>2, <2>3, <2>4 DEF KnowsEntry, Affects
<1>6. h.org = org => \A x \in DOMAIN cache' : KnowsEntry(h, x)'
  BY <1>2, <1>4, <1>5
<1> QED BY <1>1, <1>3, <1>6 DEF HeardOK

LEMMA ArriveOK ==
  ASSUME DeskInv, NEW f \in fetches, Arrive(f)
  PROVE  DeskInv'
<1>1. PICK c : c = [data |-> f.data, failed |-> FALSE, missed |-> f.missed]
  OBVIOUS
<1>2. /\ UNCHANGED <<token, org, alert, acts, done, heard>>
      /\ Put(f.key, c) /\ f.data # None
      /\ fetches' = With(fetches \ {f}, Newly)
  BY <1>1 DEF Arrive, Land, triageVars
<1>3. FetchOK(f) /\ \A x \in fetches : FetchOK(x)
  BY DEF DeskInv, CacheInv
<1>4. EntryOK(f.key, c)
  BY <1>1, <1>3 DEF EntryOK, FetchOK
<1>5. \A q \in Newly : q.key.org = org /\ q.key.ask = q.ask
  BY <1>2, ObservedIsPrimed DEF Newly
<1>6. /\ \A x \in fetches' : FetchOK(x)
      /\ fetches \ {f} \subseteq fetches'
      /\ \A x \in fetches' : x \in fetches \/ x.data = None
      /\ \A q \in Newly : \E x \in fetches' : x.key = q.key
  BY <1>2, <1>3, <1>5, WithIsOK
<1>7. CacheInv'
  BY <1>2, <1>4, <1>6, PutIsOK DEF DeskInv
<1>8. ActsInv'
  BY <1>2, SameAlerts, ActsKept DEF DeskInv, ActsInv
<1>9. \A h \in heard : h.org = org /\ f.key.list \in Affects(h.slot) /\ ~ c.failed /\ c.data # None
           => h.nr \in c.data.knows \cup c.missed
  BY <1>1 DEF DeskInv, HeardInv, HeardOK, KnowsFetch
<1>10. \A q \in Observed' : q \in Observed \/ \E x \in fetches' : x.key = q.key
  BY <1>6 DEF Newly
<1>11. \A x \in fetches : x.key # f.key => x \in fetches'
  BY <1>6
<1>12. HeardInv'
  BY <1>2, <1>6, <1>9, <1>10, <1>11, HeardWhilePut DEF DeskInv
<1> QED BY <1>7, <1>8, <1>12 DEF DeskInv

LEMMA FailOK ==
  ASSUME DeskInv, NEW f \in fetches, Fail(f)
  PROVE  DeskInv'
<1>1. PICK c : c = [data |-> IF f.key \in DOMAIN cache THEN cache[f.key].data ELSE None,
                    failed |-> TRUE, missed |-> {}]
  OBVIOUS
<1>2. /\ UNCHANGED <<token, org, ready, alert, acts, done, heard, filter, screen, url, pinned>>
      /\ open' \in {open, None}
      /\ Put(f.key, c) /\ fetches' = fetches \ {f}
  BY <1>1 DEF Fail, FetchFails, triageVars
<1>3. FetchOK(f) /\ \A x \in fetches' : FetchOK(x)
  BY <1>2 DEF DeskInv, CacheInv
<1>4. EntryOK(f.key, c)
  BY <1>1, <1>3 DEF EntryOK, FetchOK, DeskInv, CacheInv
<1>5. CacheInv'
  BY <1>2, <1>3, <1>4, PutIsOK DEF DeskInv
<1>6. ActsInv'
  BY <1>2, SameAlerts, ActsKept DEF DeskInv, ActsInv
<1>7. \A q : Shown(q)' => Shown(q)
  <2>1. /\ DOMAIN cache' = DOMAIN cache \cup {f.key} /\ cache'[f.key] = c
        /\ \A x \in DOMAIN cache : x # f.key => cache'[x] = cache[x]
    BY <1>2 DEF Put
  <2> QED BY <1>1, <2>1 DEF Shown, HasData, Failed
<1>8. Observed' \subseteq Observed
  BY <1>2, <1>7, LessIsObserved
<1>9. HeardInv'
  BY <1>1, <1>2, <1>8, HeardWhilePut DEF DeskInv
<1> QED BY <1>5, <1>6, <1>9 DEF DeskInv

-----------------------------------------------------------------------------
\* An act's success is heard: what is observed of its lists is fetched anew,
\* and what goes on is marked.

LEMMA GoesOnIs ==
  ASSUME NEW f, FetchOK(f), NEW o, NEW lists, NEW nr, NEW g, g = GoesOn(f, o, lists, Observed, nr)
  PROVE  /\ FetchOK(g) /\ g.key = f.key /\ g.data = f.data /\ f.missed \subseteq g.missed
         /\ Among(o, lists, f) /\ (HasData(f) => \A q \in Observed : q.key # f.key) => nr \in g.missed
<1>1. CASE Among(o, lists, f) /\ (HasData(f) => \A q \in Observed : q.key # f.key)
  <2>1. g = [f EXCEPT !.missed = @ \cup {nr}]
    BY <1>1 DEF GoesOn
  <2> QED BY <2>1 DEF FetchOK
<1>2. CASE ~ (Among(o, lists, f) /\ (HasData(f) => \A q \in Observed : q.key # f.key))
  BY <1>2 DEF GoesOn
<1> QED BY <1>1, <1>2

LEMMA ActHeardOK ==
  ASSUME DeskInv, NEW x \in acts, ActHeard(x, Observed), UNCHANGED listVars
  PROVE  DeskInv'
<1>1. ActOK(x) /\ x.at = "done" /\ x.lists = Affects(x.slot) /\ x.nr \in done
  BY DEF DeskInv, ActsInv, ActOK, ActHeard
<1>2. PICK new : new = [nr |-> x.nr, org |-> x.org, from |-> x.from, slot |-> x.slot]
  OBVIOUS
<1>3. /\ UNCHANGED <<token, org, ready, cache, alert, filter, done>>
      /\ acts' = acts \ {x} /\ heard' = heard \cup {new}
      /\ Invalidate(x.org, x.lists, Observed, x.nr)
  BY <1>2 DEF ActHeard
<1> DEFINE qs == {q \in Observed : Among(x.org, x.lists, q) /\ (Idle(q) \/ HasData(q))}
           on == {f \in fetches : \A q \in qs : q.key # f.key}
           On(f) == GoesOn(f, x.org, x.lists, Observed, x.nr)
<1>4. fetches' = {Fetch(q) : q \in qs} \cup {On(f) : f \in on}
  BY <1>3 DEF Invalidate, Anew
<1>5. \A f \in fetches : FetchOK(f)
  BY DEF DeskInv, CacheInv
<1>6. \A q \in qs : FetchOK(Fetch(q)) /\ Fetch(q).key = q.key /\ Fetch(q).data = None
  BY ObservedIs, FetchBegins
<1>7. \A g \in fetches' : \/ g.data = None /\ FetchOK(g)
                          \/ \E f \in on : g = On(f)
  BY <1>4, <1>6
<1>8. \A f \in on : /\ FetchOK(On(f)) /\ On(f).key = f.key
                    /\ On(f).data = f.data
                    /\ f.missed \subseteq On(f).missed
                    /\ Among(x.org, x.lists, f) /\ (HasData(f) => \A q \in Observed : q.key # f.key)
                         => x.nr \in On(f).missed
  BY <1>5, GoesOnIs
<1>9. \A f \in fetches : \E g \in fetches' : g.key = f.key
  <2>1. \A f \in on : On(f) \in fetches' /\ On(f).key = f.key
    BY <1>4, <1>8
  <2>2. \A q \in qs : Fetch(q) \in fetches' /\ Fetch(q).key = q.key
    BY <1>4, <1>6
  <2>3. \A f \in fetches : f \in on \/ \E q \in qs : q.key = f.key
    OBVIOUS
  <2> HIDE DEF qs, on, On
  <2> QED BY <2>1, <2>2, <2>3
<1>10. CacheInv'
  <2>1. \A g \in fetches' : FetchOK(g)
    BY <1>7, <1>8
  <2> QED BY <1>3, <2>1, SameAlerts, CacheKept DEF DeskInv
<1>11. ActsInv'
  BY <1>3, SameAlerts, ActsKept DEF DeskInv, ActsInv
<1>12. Observed' \subseteq Observed
  BY <1>3, LessIsObserved, ShownStays DEF listVars
<1>13. ASSUME NEW h \in heard
       PROVE  HeardOK(h)'
  <2>1. HeardOK(h)
    BY DEF DeskInv, HeardInv
  <2>2. ASSUME h.org = org, NEW g \in fetches'
        PROVE  KnowsFetch(h, g)'
    <3>1. CASE g.data = None
      BY <3>1 DEF KnowsFetch
    <3>2. ASSUME NEW f \in on, g = On(f)
          PROVE  KnowsFetch(h, g)'
      <4>1. KnowsFetch(h, f)
        BY <2>1, <2>2 DEF HeardOK
      <4>2. g.key = f.key /\ g.data = f.data /\ f.missed \subseteq g.missed
        BY <1>8, <3>2
      <4> QED BY <4>1, <4>2 DEF KnowsFetch, Affects
    <3> QED BY <1>7, <3>1, <3>2
  <2>3. ASSUME h.org = org, NEW k \in DOMAIN cache
        PROVE  KnowsEntry(h, k)'
    <3>1. KnowsEntry(h, k)
      BY <2>1, <2>3 DEF HeardOK
    <3>2. (\E f \in fetches : f.key = k) => \E f \in fetches' : f.key = k
      BY <1>9
    <3> QED BY <1>3, <1>12, <3>1, <3>2 DEF KnowsEntry, Affects
  <2> QED BY <1>3, <2>1, <2>2, <2>3 DEF HeardOK
<1>14. HeardOK(new)'
  <2>1. new.nr = x.nr /\ new.org = x.org /\ new.slot = x.slot
    BY <1>2
  <2>2. ASSUME x.org = org, NEW g \in fetches'
        PROVE  KnowsFetch(new, g)'
    <3>1. CASE g.data = None
      BY <3>1 DEF KnowsFetch
    <3>2. ASSUME NEW f \in on, g = On(f), f.key.list \in x.lists
          PROVE  x.nr \in g.missed
      <4>1. f.key.org = org
        BY <1>5 DEF FetchOK
      <4>2. Among(x.org, x.lists, f)
        BY <2>2, <3>2, <4>1 DEF Among
      <4>3. ASSUME HasData(f), NEW q \in Observed, q.key = f.key
            PROVE  FALSE
        <5>1. Among(x.org, x.lists, q) /\ HasData(q)
          BY <4>2, <4>3 DEF Among, HasData
        <5> QED BY <3>2, <4>3, <5>1
      <4> QED BY <1>8, <3>2, <4>2, <4>3
    <3>3. ASSUME NEW f \in on, g = On(f)
          PROVE  KnowsFetch(new, g)'
      <4>1. g.key = f.key
        BY <1>8, <3>3
      <4> QED BY <1>1, <2>1, <3>2, <3>3, <4>1 DEF KnowsFetch, Affects
    <3> QED BY <1>7, <3>1, <3>3
  <2>3. ASSUME x.org = org, NEW k \in DOMAIN cache
        PROVE  KnowsEntry(new, k)'
    <3>1. k.org = org
      BY <2>3 DEF DeskInv, CacheInv, EntryOK
    <3>2. ASSUME NEW q \in Observed, q.key = k, k.list \in x.lists
          PROVE  \E g \in fetches' : g.key = k
      <4>1. CASE q \in qs
        BY <1>4, <1>6, <3>2, <4>1
      <4>2. CASE q \notin qs
        <5>1. ~ Idle(q)
          BY <2>3, <3>1, <3>2, <4>2 DEF Among
        <5> QED BY <1>9, <3>2, <5>1 DEF Idle
      <4> QED BY <4>1, <4>2
    <3> QED BY <1>1, <1>3, <1>12, <2>1, <3>2 DEF KnowsEntry, Affects
  <2> QED BY <1>1, <1>3, <2>1, <2>2, <2>3 DEF HeardOK
<1>15. HeardInv'
  BY <1>3, <1>13, <1>14 DEF HeardInv
<1> QED BY <1>10, <1>11, <1>15 DEF DeskInv

-----------------------------------------------------------------------------
\* An alert becomes active: news to every answer that was given before.

LEMMA NewsIsOK ==
  ASSUME NEW k, NEW d, DataOK(k, d), d # None, NEW a \in Alerts, NEW e, e = News(d, {a}),
         CacheInv, alert' = [alert EXCEPT ![a] = "active"], UNCHANGED <<token, org>>
  PROVE  DataOK(k, e)' /\ e.knows = d.knows
<1>1. DataShape(d) /\ d.ask = k.ask /\ (token = org => d.from = org)
  BY DEF DataOK
<1>2. e = [d EXCEPT !.since = @ \cup {a}]
  BY DEF News
<1>3. /\ DataShape(e) /\ e.from = d.from /\ e.ask = d.ask /\ e.rows = d.rows /\ e.beyond = d.beyond
      /\ e.since = d.since \cup {a} /\ e.knows = d.knows
  BY <1>1, <1>2 DEF DataShape
<1>4. ASSUME k.list = "alerts"
      PROVE  NoneMissing(e.from, e.ask, e.rows \cup e.beyond \cup e.since)' /\ FullOrWhole(e.rows, e.beyond)
  <2>1. NoneMissing(d.from, d.ask, d.rows \cup d.beyond \cup d.since) /\ FullOrWhole(d.rows, d.beyond)
    BY <1>4 DEF DataOK
  <2>2. \A b \in Alerts : b # a => alert'[b] = alert[b]
    BY DEF CacheInv
  <2> QED BY <1>3, <2>1, <2>2 DEF NoneMissing, Matches
<1> QED BY <1>1, <1>3, <1>4 DEF DataOK, DataShape, FullOrWhole

LEMMA NoNews == ASSUME NEW as PROVE News(None, as) = None
BY DEF News

LEMMA RaiseOK ==
  ASSUME DeskInv, NEW a \in Alerts, Raise(a), UNCHANGED listVars
  PROVE  DeskInv'
<1>1. /\ UNCHANGED <<token, org, ready, filter, done, heard>>
      /\ alert' = [alert EXCEPT ![a] = "active"]
      /\ cache' = [k \in DOMAIN cache |-> [cache[k] EXCEPT !.data = News(@, {a})]]
      /\ fetches' = {[f EXCEPT !.data = News(@, {a})] : f \in fetches}
      /\ acts' = {IF x.at = "sent" THEN [x EXCEPT !.since = @ \cup {a}] ELSE x : x \in acts}
  BY DEF Raise, Spread
<1>2. CacheInv
  BY DEF DeskInv
<1>3. alert' \in [Alerts -> {"none", "active", "acknowledged"}]
  BY <1>1, <1>2 DEF CacheInv
<1>4. ASSUME NEW f \in fetches
      PROVE  LET g == [f EXCEPT !.data = News(@, {a})]
             IN  /\ FetchOK(g)' /\ g.key = f.key /\ g.missed = f.missed
                 /\ g.data # None => f.data # None /\ g.data.knows = f.data.knows
  <2>1. FetchOK(f)
    BY <1>2 DEF CacheInv
  <2>2. PICK e : e = News(f.data, {a})
    OBVIOUS
  <2>3. PICK g : g = [f EXCEPT !.data = News(@, {a})]
    OBVIOUS
  <2>4. /\ g = [key |-> g.key, ask |-> g.ask, from |-> g.from, data |-> g.data, missed |-> g.missed]
        /\ g.key = f.key /\ g.ask = f.ask /\ g.from = f.from /\ g.data = e /\ g.missed = f.missed
    BY <2>1, <2>2, <2>3 DEF FetchOK
  <2>5. e # None => f.data # None
    BY <2>2, NoNews
  <2>6. ASSUME e # None
        PROVE  DataOK(f.key, e)' /\ e.knows = f.data.knows
    <3>1. DataOK(f.key, f.data) /\ f.data # None
      BY <2>1, <2>5, <2>6 DEF FetchOK
    <3> QED BY <1>1, <1>2, <2>2, <3>1, NewsIsOK
  <2>7. FetchOK(g)'
    BY <1>1, <2>1, <2>4, <2>6 DEF FetchOK
  <2> QED BY <2>3, <2>4, <2>5, <2>6, <2>7
<1>5. ASSUME NEW k \in DOMAIN cache
      PROVE  /\ k \in DOMAIN cache' /\ EntryOK(k, cache[k])'
             /\ cache'[k].failed = cache[k].failed /\ cache'[k].missed = cache[k].missed
             /\ cache'[k].data # None => cache[k].data # None /\ cache'[k].data.knows = cache[k].data.knows
  <2>1. PICK c : c = cache[k]
    OBVIOUS
  <2>2. EntryOK(k, c)
    BY <1>2, <2>1 DEF CacheInv
  <2>3. PICK e : e = News(c.data, {a})
    OBVIOUS
  <2>4. PICK g : g = [c EXCEPT !.data = News(@, {a})]
    OBVIOUS
  <2>5. /\ g = [data |-> g.data, failed |-> g.failed, missed |-> g.missed]
        /\ g.failed = c.failed /\ g.data = e /\ g.missed = c.missed
    BY <2>2, <2>3, <2>4 DEF EntryOK
  <2>6. e # None => c.data # None
    BY <2>3, NoNews
  <2>7. e # None => DataOK(k, e)' /\ e.knows = c.data.knows
    BY <1>1, <1>2, <2>2, <2>3, <2>6, NewsIsOK DEF EntryOK
  <2>8. EntryOK(k, g)'
    BY <1>1, <2>2, <2>5, <2>7 DEF EntryOK
  <2>9. k \in DOMAIN cache' /\ cache'[k] = g
    BY <1>1, <2>1, <2>4
  <2> QED BY <2>1, <2>5, <2>6, <2>7, <2>8, <2>9
<1>6. DOMAIN cache' = DOMAIN cache
  BY <1>1
<1>7. CacheInv'
  <2>1. \A g \in fetches' : FetchOK(g)'
    BY <1>1, <1>4
  <2>2. \A k \in DOMAIN cache' : EntryOK(k, cache[k])'
    BY <1>5, <1>6
  <2> QED BY <1>3, <2>1, <2>2 DEF CacheInv
<1>8. ASSUME NEW x \in acts
      PROVE  ActOK(IF x.at = "sent" THEN [x EXCEPT !.since = @ \cup {a}] ELSE x)'
  <2>1. ActOK(x)
    BY DEF DeskInv, ActsInv
  <2>2. \A b \in Alerts : b # a => alert'[b] = alert[b]
    BY <1>1, <1>2 DEF CacheInv
  <2>3. CASE x.at # "sent"
    BY <1>1, <2>1, <2>3 DEF ActOK, Affects, MayTake
  <2>4. CASE x.at = "sent"
    <3>1. PICK y : y = [x EXCEPT !.since = @ \cup {a}]
      OBVIOUS
    <3>2. /\ y = [slot |-> y.slot, kind |-> y.kind, target |-> y.target, lists |-> y.lists, org |-> y.org,
                  from |-> y.from, filter |-> y.filter, rows |-> y.rows, beyond |-> y.beyond,
                  since |-> y.since, at |-> y.at, targets |-> y.targets, nr |-> y.nr]
          /\ y.slot = x.slot /\ y.lists = x.lists /\ y.org = x.org /\ y.from = x.from /\ y.filter = x.filter
          /\ y.rows = x.rows /\ y.beyond = x.beyond /\ y.since = x.since \cup {a} /\ y.nr = x.nr /\ y.at = "sent" /\ y.kind = x.kind
      BY <2>1, <2>4, <3>1 DEF ActOK
    <3>3. NoneMissing(x.from, x.filter, x.rows \cup x.beyond \cup x.since)
            => NoneMissing(y.from, y.filter, y.rows \cup y.beyond \cup y.since)'
      BY <2>2, <3>2 DEF NoneMissing, Matches
    <3>4. y.lists = Affects(y.slot)'
      BY <2>1, <3>2 DEF ActOK, Affects
    <3>5. y.kind = "bulk" => /\ y.filter.status = "active"
                             /\ y.from = y.org => /\ NoneMissing(y.from, y.filter, y.rows \cup y.beyond \cup y.since)'
                                                  /\ FullOrWhole(y.rows, y.beyond)
      BY <2>1, <2>4, <3>2, <3>3 DEF ActOK, FullOrWhole
    <3>6. ActOK(y)'
      BY <3>2, <3>4, <3>5 DEF ActOK, FullOrWhole
    <3> QED BY <2>4, <3>1, <3>6
  <2> QED BY <2>3, <2>4
<1>9. ActsInv'
  BY <1>1, <1>8 DEF ActsInv
<1>10. Observed' \subseteq Observed
  <2>1. \A q : Shown(q)' => Shown(q)
    BY <1>5, <1>6 DEF Shown, HasData, Failed
  <2> QED BY <1>1, <2>1, LessIsObserved DEF listVars
<1>11. ASSUME NEW h \in heard
       PROVE  HeardOK(h)'
  <2>1. HeardOK(h)
    BY DEF DeskInv, HeardInv
  <2>2. ASSUME h.org = org, NEW f \in fetches
        PROVE  KnowsFetch(h, [f EXCEPT !.data = News(@, {a})])'
    BY <1>1, <1>4, <2>1, <2>2 DEF HeardOK, KnowsFetch, Affects
  <2>3. ASSUME h.org = org, NEW k \in DOMAIN cache
        PROVE  KnowsEntry(h, k)'
    <3>1. KnowsEntry(h, k)
      BY <2>1, <2>3 DEF HeardOK
    <3>2. (\E f \in fetches : f.key = k) => \E f \in fetches' : f.key = k
      BY <1>1, <1>4
    <3> QED BY <1>5, <1>10, <3>1, <3>2 DEF KnowsEntry, Affects
  <2> QED BY <1>1, <1>6, <2>1, <2>2, <2>3 DEF HeardOK
<1>12. HeardInv'
  BY <1>1, <1>11 DEF HeardInv
<1> QED BY <1>7, <1>9, <1>12 DEF DeskInv

-----------------------------------------------------------------------------
LEMMA OthersOK ==
  ASSUME DeskInv, Others
  PROVE  DeskInv'
BY RaiseOK, AckedElsewhereOK, ServeActOK, BeginBulkOK, AckNextOK, EndBulkOK, ActFailsOK, ActHeardOK DEF Others

LEMMA DeskInit == Init => DeskInv
<1> SUFFICES ASSUME Init
             PROVE  DeskInv
  OBVIOUS
<1>1. alert \in InitialAlerts /\ fetches = {} /\ DOMAIN cache = {} /\ acts = {} /\ heard = {}
  BY DEF Init, CacheInit, TriageInit
<1> QED BY <1>1, TriageAssumption DEF DeskInv, CacheInv, ActsInv, HeardInv

LEMMA DeskStands ==
  ASSUME DeskInv, UNCHANGED deskVars
  PROVE  DeskInv'
<1>1. TabStill /\ UNCHANGED <<alert, acts, done>>
  BY DEF deskVars, TabStill, tabVars, triageVars
<1>2. CacheInv' /\ HeardInv'
  BY <1>1, SameAlerts, TabStandsStill DEF DeskInv
<1>3. ActsInv'
  BY <1>1, SameAlerts, ActsKept DEF DeskInv, ActsInv
<1> QED BY <1>2, <1>3 DEF DeskInv

\* A step of the desk, or one that leaves it alone.
DeskNext ==
  \/ View \/ ChangeOrg \/ Operate \/ Others
  \/ \E f \in fetches : Serve(f) \/ Arrive(f) \/ Fail(f)
  \/ \E q \in Observed : Refetch(q) /\ UNCHANGED <<triageVars, listVars>>
  \/ UNCHANGED deskVars

LEMMA NextOfDesk == [Next]_vars => DeskNext
BY Zenon DEF Next, DeskNext, vars

LEMMA DeskStep == DeskInv /\ [Next]_vars => DeskInv'
<1> SUFFICES ASSUME DeskInv, DeskNext
             PROVE  DeskInv'
  BY NextOfDesk
<1>1. ASSUME NEW f \in fetches, Serve(f) \/ Arrive(f) \/ Fail(f)
      PROVE  DeskInv'
  BY <1>1, ServeOK, ArriveOK, FailOK
<1>2. ASSUME NEW q \in Observed, Refetch(q), UNCHANGED <<triageVars, listVars>>
      PROVE  DeskInv'
  BY <1>2, RefetchOK
<1> QED BY <1>1, <1>2, ViewOK, ChangeOrgOK, OperateOK, OthersOK, DeskStands DEF DeskNext

LEMMA DeskIsKept == Spec => []DeskInv
BY DeskInit, DeskStep, PTL DEF Spec

\* What a page shows was fetched for the organization and the filters it shows
\* it under, but for the moment in which Clerk has changed and the page has
\* not (useTenantQuery.ts:1-7, OrgCacheReset.tsx:1-6).
THEOREM PagesShowTheirOwn == Spec => []ShownIsOwn
<1>1. DeskInv => ShownIsOwn
  <2> SUFFICES ASSUME DeskInv, Settled, NEW q \in Observed, HasData(q)
               PROVE  cache[q.key].data.from = org /\ cache[q.key].data.ask = q.ask
    BY DEF ShownIsOwn
  <2>1. DataOK(q.key, cache[q.key].data)
    BY DEF DeskInv, CacheInv, EntryOK, HasData
  <2> QED BY <2>1, ObservedIs DEF DataOK, Settled
<1> QED BY <1>1, DeskIsKept, PTL

\* A list that an act changed comes to rest on an answer that knows the act,
\* once its success has been heard, but for an answer that was on its way then
\* and is not asked for anew, as its filters were not shown or its list had not
\* been loaded before (the onSuccess handlers of AlertsPage, AlertBell,
\* IngestionsPage and LifecyclesPage).
THEOREM ListsFollowActs == Spec => []FreshAfterAct
<1>1. DeskInv => FreshAfterAct
  <2> SUFFICES ASSUME DeskInv, Settled, NEW h \in heard, NEW q \in Observed,
                      h.org = org, q.key.list \in Affects(h.slot),
                      \A f \in fetches : f.key # q.key, Shown(q)
               PROVE  h.nr \in cache[q.key].data.knows \cup cache[q.key].missed
    BY DEF FreshAfterAct
  <2>1. q.key \in DOMAIN cache /\ ~ cache[q.key].failed /\ cache[q.key].data # None
    BY DEF Shown, HasData, Failed
  <2>2. KnowsEntry(h, q.key)
    BY <2>1 DEF DeskInv, HeardInv, HeardOK
  <2> QED BY <2>1, <2>2 DEF KnowsEntry
<1> QED BY <1>1, DeskIsKept, PTL

\* What "Ack all" takes, the page showed, or it became active later, or the
\* type filter hid it, or the page was full and the limit left it out
\* (AlertsPage.tsx:187-191, routes/alerts.ts:170-177, services/alerts.ts:166).
THEOREM AckAllTakesWhatIsShown == Spec => AckAllTakesShown
<1>1. DeskInv /\ [Next]_vars =>
        [\A x \in acts : x.at = "acking" /\ x.from = x.org =>
           \A a \in x.targets : alert'[a] # alert[a] =>
             \/ a \in x.rows \cup x.since
             \/ x.filter.type \notin {All, TypeOf[a]}
             \/ a \in x.beyond /\ Cardinality(x.rows) = MaxList]_vars
  BY Zenon DEF DeskInv, ActsInv, ActOK, MayTake
<1> QED BY <1>1, DeskIsKept, PTL DEF Spec, AckAllTakesShown

-----------------------------------------------------------------------------
(* What a person and a tenant keep.                                        *)

PrefsOK(p) == p \in Preferred /\ Len(p.views) <= MaxViews

\* What the save takes care of is in what it sends, but for what is to go.
SaveOK(s) ==
  /\ s = [tab |-> s.tab, control |-> s.control, at |-> s.at, body |-> s.body, knew |-> s.knew,
          drops |-> s.drops, nr |-> s.nr]
  /\ s.at \in {"sent", "merged", "saved"}
  /\ s.at = "sent" /\ s.control \notin Fields => PrefsOK(s.body) /\ s.knew \ s.drops \subseteq Kept(s.body)
  /\ s.at = "sent" /\ s.control \in Fields => s.body \in Configured
  /\ s.at = "sent" /\ s.control = "muted" =>
       \A i \in s.knew \ s.drops : i[1] = "muted" => \E y \in s.body.muted : i = <<"muted", y>>
  /\ s.at = "sent" /\ s.control = "digest" => \A b \in BOOLEAN : <<"digest", b>> \in s.drops
  /\ s.at = "merged" => s.body \in Configured /\ s.knew \ s.drops \subseteq SettingKept(s.body)

PrefsInv ==
  /\ PrefsOK(prefs) /\ settings \in Configured
  /\ DOMAIN copy = Tabs /\ \A t \in Tabs : copy[t] # Unset => PrefsOK(copy[t])
  /\ DOMAIN shown = Tabs /\ \A t \in Tabs : shown[t] # Unset => shown[t] \in Configured
  /\ \A s \in saves : SaveOK(s)

LEMMA BaseOK ==
  ASSUME PrefsInv, NEW t \in Tabs
  PROVE  PrefsOK(Base(t))
<1>1. PrefsOK(NoPrefs)
  BY PreferencesAssumption DEF PrefsOK, NoPrefs, Preferred
<1> QED BY <1>1 DEF Base, PrefsInv

\* A save of preferences that is sent.
LEMMA SendIsOK ==
  ASSUME PrefsInv, NEW t, NEW c, NEW body, NEW knew, NEW drops, Send(t, c, body, knew, drops),
         \A s : s = [tab |-> t, control |-> c, at |-> "sent", body |-> body, knew |-> knew,
                     drops |-> drops, nr |-> clicks] => SaveOK(s)
  PROVE  PrefsInv' /\ UNCHANGED <<prefs, settings>>
<1>1. PICK s : s = [tab |-> t, control |-> c, at |-> "sent", body |-> body, knew |-> knew,
                    drops |-> drops, nr |-> clicks]
  OBVIOUS
<1>2. saves' = saves \cup {s} /\ UNCHANGED <<prefs, settings, copy, shown>>
  BY <1>1 DEF Send
<1>3. SaveOK(s)
  BY <1>1
<1>4. \A x : SaveOK(x) <=> SaveOK(x)'
  BY DEF SaveOK, PrefsOK, Kept, SettingKept, Fields, Preferred, Configured
<1> QED BY <1>2, <1>3, <1>4 DEF PrefsInv, PrefsOK

LEMMA PreferencesSent ==
  ASSUME PrefsInv, NEW t, NEW c, NEW body, NEW knew, NEW drops, Send(t, c, body, knew, drops),
         c \notin Fields, PrefsOK(body), knew \ drops \subseteq Kept(body)
  PROVE  PrefsInv' /\ UNCHANGED <<prefs, settings>>
<1>1. ASSUME NEW s, s = [tab |-> t, control |-> c, at |-> "sent", body |-> body, knew |-> knew,
                         drops |-> drops, nr |-> clicks]
      PROVE  SaveOK(s)
  BY <1>1 DEF SaveOK, Fields
<1> QED BY <1>1, SendIsOK

LEMMA PinSent ==
  ASSUME PrefsInv, NEW t \in Tabs, NEW po \in Pos, TogglePin(t, po)
  PROVE  PrefsInv' /\ UNCHANGED <<prefs, settings>>
<1>1. PICK b : b = Base(t)
  OBVIOUS
<1>2. PICK pins : pins = IF po \in b.pins THEN b.pins \ {po} ELSE b.pins \cup {po}
  OBVIOUS
<1>3. PICK body : body = [b EXCEPT !.pins = pins]
  OBVIOUS
<1>4. Send(t, "pin", body, Kept(b), {<<"pin", po>>})
  BY <1>1, <1>2, <1>3 DEF TogglePin
<1>5. PrefsOK(b)
  BY <1>1, BaseOK
<1>6. /\ PrefsOK(body) /\ body.pins = pins /\ body.views = b.views /\ body.landing = b.landing
      /\ body.tables = b.tables
  BY <1>2, <1>3, <1>5 DEF PrefsOK, Preferred
<1>7. Kept(b) \ {<<"pin", po>>} \subseteq Kept(body)
  BY <1>2, <1>6 DEF Kept
<1> QED BY <1>4, <1>6, <1>7, PreferencesSent DEF Fields

LEMMA LandingSent ==
  ASSUME PrefsInv, NEW t \in Tabs, NEW l \in Landings, SetLanding(t, l)
  PROVE  PrefsInv' /\ UNCHANGED <<prefs, settings>>
<1>1. PICK b : b = Base(t)
  OBVIOUS
<1>2. PICK body : body = [b EXCEPT !.landing = l]
  OBVIOUS
<1>3. Send(t, "landing", body, Kept(b), {<<"landing", x>> : x \in Landings})
  BY <1>1, <1>2 DEF SetLanding
<1>4. PrefsOK(b)
  BY <1>1, BaseOK
<1>5. /\ PrefsOK(body) /\ body.pins = b.pins /\ body.views = b.views /\ body.tables = b.tables
      /\ b.landing \in Landings \cup {Unset}
  BY <1>2, <1>4 DEF PrefsOK, Preferred
<1>6. Kept(b) \ {<<"landing", x>> : x \in Landings} \subseteq Kept(body)
  BY <1>5 DEF Kept
<1> QED BY <1>3, <1>5, <1>6, PreferencesSent DEF Fields

LEMMA LayoutSent ==
  ASSUME PrefsInv, NEW t \in Tabs, NEW table \in Tables, NEW l \in Layouts, SetLayout(t, table, l)
  PROVE  PrefsInv' /\ UNCHANGED <<prefs, settings>>
<1>1. PICK b : b = copy[t]
  OBVIOUS
<1>2. PICK tables : tables = [b.tables EXCEPT ![table] = l]
  OBVIOUS
<1>3. PICK body : body = [b EXCEPT !.tables = tables]
  OBVIOUS
<1>4. Send(t, "layout", body, Kept(b), {<<"layout", table, b.tables[table]>>})
  BY <1>1, <1>2, <1>3 DEF SetLayout
<1>5. PrefsOK(b)
  BY <1>1 DEF PrefsInv, SetLayout
<1>6. /\ PrefsOK(body) /\ body.pins = b.pins /\ body.views = b.views /\ body.landing = b.landing
      /\ body.tables = tables
  BY <1>2, <1>3, <1>5 DEF PrefsOK, Preferred
<1>7. \A u \in Tables : u # table => tables[u] = b.tables[u]
  BY <1>2, <1>5 DEF PrefsOK, Preferred
<1>8. Kept(b) \ {<<"layout", table, b.tables[table]>>} \subseteq Kept(body)
  BY <1>6, <1>7 DEF Kept
<1> QED BY <1>4, <1>6, <1>8, PreferencesSent DEF Fields

\* A sequence that has lost one element has the others.
LEMMA OneIsRemoved ==
  ASSUME NEW S, NEW q \in Seq(S), NEW i \in DOMAIN q, NEW r, r = RemoveAt(q, i)
  PROVE  r \in Seq(S) /\ Len(r) <= Len(q) /\ \A j \in DOMAIN q : j # i => \E k \in DOMAIN r : r[k] = q[j]
<1>1. PICK a, b : a = SubSeq(q, 1, i - 1) /\ b = SubSeq(q, i + 1, Len(q))
  OBVIOUS
<1>2. r = a \o b
  BY <1>1 DEF RemoveAt
<1>3. Len(q) \in Nat /\ i \in 1..Len(q) /\ \A j \in 1..Len(q) : q[j] \in S
  BY LenProperties, ElementOfSeq
<1>4. a \in Seq(S) /\ Len(a) = i - 1 /\ \A j \in 1..(i - 1) : a[j] = q[j]
  <2>1. /\ a \in Seq(S)
        /\ Len(a) = IF 1 <= i - 1 THEN (i - 1) - 1 + 1 ELSE 0
        /\ \A j \in 1..((i - 1) - 1 + 1) : a[j] = q[1 + j - 1]
    BY <1>1, <1>3, SubSeqProperties
  <2> QED BY <1>3, <2>1
<1>5. b \in Seq(S) /\ Len(b) = Len(q) - i /\ \A j \in 1..(Len(q) - i) : b[j] = q[i + j]
  <2>1. /\ b \in Seq(S)
        /\ Len(b) = IF i + 1 <= Len(q) THEN Len(q) - (i + 1) + 1 ELSE 0
        /\ \A j \in 1..(Len(q) - (i + 1) + 1) : b[j] = q[(i + 1) + j - 1]
    BY <1>1, <1>3, SubSeqProperties
  <2> QED BY <1>3, <2>1
<1>6. /\ r \in Seq(S) /\ Len(r) = Len(q) - 1 /\ DOMAIN r = 1..(Len(q) - 1)
      /\ \A j \in 1..(Len(q) - 1) : r[j] = IF j <= i - 1 THEN a[j] ELSE b[j - (i - 1)]
  <2>1. /\ r \in Seq(S) /\ Len(r) = Len(a) + Len(b)
        /\ \A j \in 1..(Len(a) + Len(b)) : r[j] = IF j <= Len(a) THEN a[j] ELSE b[j - Len(a)]
    BY <1>2, <1>4, <1>5, ConcatProperties
  <2>2. /\ Len(a) = i - 1 /\ Len(b) = Len(q) - i /\ Len(q) \in Nat /\ i \in 1..Len(q)
        /\ Len(a) + Len(b) = Len(q) - 1
    BY <1>3, <1>4, <1>5
  <2>3. DOMAIN r = 1..Len(r)
    BY <2>1, LenProperties
  <2>4. /\ Len(r) = Len(q) - 1
        /\ \A j \in 1..(Len(q) - 1) : r[j] = IF j <= i - 1 THEN a[j] ELSE b[j - (i - 1)]
    BY <2>1, <2>2
  <2> QED BY <2>1, <2>3, <2>4
<1>7. ASSUME NEW j \in DOMAIN q, j # i
      PROVE  \E k \in DOMAIN r : r[k] = q[j]
  <2>1. j \in 1..Len(q)
    OBVIOUS
  <2>2. CASE j < i
    <3>1. j \in DOMAIN r /\ r[j] = a[j] /\ a[j] = q[j]
      BY <1>3, <1>4, <1>6, <2>1, <2>2
    <3> QED BY <3>1
  <2>3. CASE j > i
    <3>1. j - 1 \in DOMAIN r /\ j - i \in 1..(Len(q) - i) /\ ~ (j - 1 <= i - 1)
          /\ (j - 1) - (i - 1) = j - i /\ i + (j - i) = j
      BY <1>3, <1>6, <2>1, <2>3
    <3>2. r[j - 1] = b[j - i]
      BY <1>6, <3>1
    <3> QED BY <1>5, <3>1, <3>2
  <2> QED BY <1>3, <1>7, <2>1, <2>2, <2>3
<1> QED BY <1>3, <1>6, <1>7

LEMMA ViewDeleted ==
  ASSUME PrefsInv, NEW t \in Tabs, NEW v \in Views, DeleteView(t, v)
  PROVE  PrefsInv' /\ UNCHANGED <<prefs, settings>>
<1>1. PICK b : b = copy[t]
  OBVIOUS
<1>2. PICK i \in DOMAIN b.views :
        /\ b.views[i] = v
        /\ Send(t, "view", [b EXCEPT !.views = RemoveAt(@, i)], Kept(b), {<<"view", v>>})
  BY <1>1 DEF DeleteView
<1>3. PICK views : views = RemoveAt(b.views, i)
  OBVIOUS
<1>4. PICK body : body = [b EXCEPT !.views = views]
  OBVIOUS
<1>5. Send(t, "view", body, Kept(b), {<<"view", v>>})
  BY <1>2, <1>3, <1>4
<1>6. PrefsOK(b)
  BY <1>1 DEF PrefsInv, DeleteView
<1>7. /\ views \in Seq(Views) /\ Len(views) <= Len(b.views)
      /\ \A j \in DOMAIN b.views : j # i => \E k \in DOMAIN views : views[k] = b.views[j]
  <2>1. b.views \in Seq(Views)
    BY <1>6 DEF PrefsOK, Preferred
  <2> QED BY <1>3, <2>1, OneIsRemoved
<1>8. /\ PrefsOK(body) /\ body.pins = b.pins /\ body.views = views /\ body.landing = b.landing
      /\ body.tables = b.tables
  <2>1. Len(views) <= MaxViews
    BY <1>6, <1>7, LenProperties, PreferencesAssumption DEF PrefsOK, Preferred
  <2> QED BY <1>4, <1>6, <1>7, <2>1 DEF PrefsOK, Preferred
<1>9. \A x \in Range(b.views) : x = v \/ x \in Range(views)
  BY <1>2, <1>7 DEF Range
<1>10. Kept(b) \ {<<"view", v>>} \subseteq Kept(body)
  BY <1>8, <1>9 DEF Kept
<1> QED BY <1>5, <1>8, <1>10, PreferencesSent DEF Fields

\* The bar keeps as many of the newest views as may be saved.
Newest(q) == SubSeq(q, 1 + Len(q) - (IF Len(q) > MaxViews THEN MaxViews ELSE Len(q)), Len(q))

LEMMA NewestFit ==
  ASSUME NEW q \in Seq(Views)
  PROVE  Newest(q) \in Seq(Views) /\ Len(Newest(q)) <= MaxViews
<1>1. PICK n \in Nat : n = (IF Len(q) > MaxViews THEN MaxViews ELSE Len(q)) /\ n <= MaxViews /\ n <= Len(q)
  BY PreferencesAssumption
<1>2. Newest(q) = SubSeq(q, 1 + Len(q) - n, Len(q))
  BY <1>1 DEF Newest
<1>3. Len(q) \in Nat /\ \A j \in (1 + Len(q) - n)..Len(q) : q[j] \in Views
  <2>1. Len(q) \in Nat /\ \A j \in 1..Len(q) : q[j] \in Views
    BY LenProperties, ElementOfSeq
  <2> QED BY <1>1, <2>1
<1>4. /\ Newest(q) \in Seq(Views)
      /\ Len(Newest(q)) = IF 1 + Len(q) - n <= Len(q) THEN Len(q) - (1 + Len(q) - n) + 1 ELSE 0
  BY <1>2, <1>3, SubSeqProperties
<1> QED BY <1>1, <1>3, <1>4, PreferencesAssumption

LEMMA ViewSaved ==
  ASSUME PrefsInv, NEW t \in Tabs, NEW v \in Views, SaveView(t, v)
  PROVE  PrefsInv' /\ UNCHANGED <<prefs, settings>>
<1>1. PICK b : b = copy[t]
  OBVIOUS
<1>2. PICK all : all = Append(b.views, v)
  OBVIOUS
<1>3. PICK body : body = [b EXCEPT !.views = Newest(all)]
  OBVIOUS
<1>4. Send(t, "view", body, Kept(b), {<<"view", x>> : x \in Range(all) \ Range(Newest(all))})
  BY <1>1, <1>2, <1>3 DEF SaveView, Newest
<1>5. PrefsOK(b)
  BY <1>1 DEF PrefsInv, SaveView
<1>6. all \in Seq(Views) /\ \A x \in Range(b.views) : x \in Range(all)
  <2>1. b.views \in Seq(Views)
    BY <1>5 DEF PrefsOK, Preferred
  <2>2. all \in Seq(Views) /\ Len(all) = Len(b.views) + 1 /\ \A j \in 1..Len(b.views) : all[j] = b.views[j]
    BY <1>2, <2>1
  <2> QED BY <2>1, <2>2 DEF Range
<1>7. /\ PrefsOK(body) /\ body.pins = b.pins /\ body.views = Newest(all) /\ body.landing = b.landing
      /\ body.tables = b.tables
  BY <1>3, <1>5, <1>6, NewestFit DEF PrefsOK, Preferred
<1>8. Kept(b) \ {<<"view", x>> : x \in Range(all) \ Range(Newest(all))} \subseteq Kept(body)
  BY <1>6, <1>7 DEF Kept
<1> QED BY <1>4, <1>7, <1>8, PreferencesSent DEF Fields

-----------------------------------------------------------------------------
\* The server's side, and the settings.

\* A save that has come further, beside the others.
LEMMA SavesStay ==
  ASSUME PrefsInv, NEW s \in saves, NEW n, saves' = (saves \ {s}) \cup {n}, SaveOK(n)
  PROVE  \A x \in saves' : SaveOK(x)'
BY DEF PrefsInv, SaveOK, PrefsOK, Kept, SettingKept, Fields, Preferred, Configured

LEMMA ParsedAsSent == ASSUME NEW p, PrefsOK(p) PROVE ParsePreferences(p) = p
<1>1. PICK n : n = IF Len(p.views) > MaxViews THEN MaxViews ELSE Len(p.views)
  OBVIOUS
<1>2. p.views \in Seq(Views) /\ Len(p.views) \in Nat /\ n = Len(p.views)
  BY <1>1, LenProperties, PreferencesAssumption DEF PrefsOK, Preferred
<1>3. SubSeq(p.views, 1, n) = p.views
  BY <1>2, SubSeqFull
<1>4. ParsePreferences(p) = [p EXCEPT !.views = SubSeq(p.views, 1, n)]
  BY <1>1 DEF ParsePreferences
<1> QED BY <1>3, <1>4 DEF PrefsOK, Preferred

\* A patch stores what was sent; what is gone by it was to go, or unknown.
LEMMA PatchIsOK ==
  ASSUME PrefsInv, NEW s \in saves, Patch(s)
  PROVE  /\ PrefsInv' /\ settings' = settings
         /\ \A x \in Kept(prefs) : x \notin Kept(prefs') =>
              \E y \in saves \ saves' : y.at = "sent" /\ (x \notin y.knew \/ x \in y.drops)
<1>1. SaveOK(s) /\ s.at = "sent" /\ s.control \notin Fields
  BY DEF PrefsInv, Patch
<1>2. PrefsOK(s.body) /\ s.knew \ s.drops \subseteq Kept(s.body)
  BY <1>1 DEF SaveOK
<1>3. prefs' = s.body
  BY <1>2, ParsedAsSent DEF Patch
<1>4. PICK n : n = [s EXCEPT !.at = "saved"]
  OBVIOUS
<1>5. saves' = (saves \ {s}) \cup {n} /\ UNCHANGED <<settings, copy, shown>>
  BY <1>4 DEF Patch
<1>6. n.at = "saved" /\ SaveOK(n)
  BY <1>1, <1>4 DEF SaveOK
<1>7. PrefsInv'
  BY <1>2, <1>3, <1>5, <1>6, SavesStay DEF PrefsInv, PrefsOK
<1>8. s \in saves \ saves'
  BY <1>1, <1>5, <1>6
<1> QED BY <1>1, <1>2, <1>3, <1>5, <1>7, <1>8

LEMMA MuteSent ==
  ASSUME PrefsInv, NEW t \in Tabs, NEW y \in Types, Mute(t, y)
  PROVE  PrefsInv' /\ UNCHANGED <<prefs, settings>>
<1>1. PICK b : b = shown[t]
  OBVIOUS
<1>2. PICK muted : muted = IF y \in b.muted THEN b.muted \ {y} ELSE b.muted \cup {y}
  OBVIOUS
<1>3. PICK body : body = [b EXCEPT !.muted = muted]
  OBVIOUS
<1>4. Send(t, "muted", body, SettingKept(b), {<<"muted", y>>})
  BY <1>1, <1>2, <1>3 DEF Mute
<1>5. b \in Configured
  BY <1>1 DEF PrefsInv, Mute
<1>6. body \in Configured /\ body.muted = muted
  BY <1>2, <1>3, <1>5 DEF Configured
<1>7. \A i \in SettingKept(b) \ {<<"muted", y>>} : i[1] = "muted" => \E x \in muted : i = <<"muted", x>>
  BY <1>2 DEF SettingKept
<1>8. ASSUME NEW s, s = [tab |-> t, control |-> "muted", at |-> "sent", body |-> body, knew |-> SettingKept(b),
                         drops |-> {<<"muted", y>>}, nr |-> clicks]
      PROVE  SaveOK(s)
  BY <1>6, <1>7, <1>8 DEF SaveOK, Fields
<1> QED BY <1>4, <1>8, SendIsOK

LEMMA DigestSent ==
  ASSUME PrefsInv, NEW t \in Tabs, SwitchDigest(t)
  PROVE  PrefsInv' /\ UNCHANGED <<prefs, settings>>
<1>1. PICK b : b = shown[t]
  OBVIOUS
<1>2. PICK body : body = [b EXCEPT !.digest = ~ b.digest]
  OBVIOUS
<1>3. Send(t, "digest", body, {}, {<<"digest", x>> : x \in BOOLEAN})
  BY <1>1, <1>2 DEF SwitchDigest
<1>4. b \in Configured
  BY <1>1 DEF PrefsInv, SwitchDigest
<1>5. body \in Configured
  BY <1>2, <1>4 DEF Configured
<1>6. ASSUME NEW s, s = [tab |-> t, control |-> "digest", at |-> "sent", body |-> body, knew |-> {},
                         drops |-> {<<"digest", x>> : x \in BOOLEAN}, nr |-> clicks]
      PROVE  SaveOK(s)
  BY <1>5, <1>6 DEF SaveOK, Fields
<1> QED BY <1>3, <1>6, SendIsOK

\* The other field is as it was read, this one as it was sent.
LEMMA ReadIsOK ==
  ASSUME PrefsInv, NEW s \in saves, ReadSettings(s)
  PROVE  PrefsInv' /\ UNCHANGED <<prefs, settings>>
<1>1. SaveOK(s) /\ s.at = "sent" /\ s.control \in {"muted", "digest"} /\ s.body \in Configured
      /\ settings \in Configured
  BY DEF PrefsInv, ReadSettings, SaveOK, Fields
<1>2. PICK n : n = [s EXCEPT !.at = "merged", !.body = Merged(s), !.knew = KnownOf(s)]
  OBVIOUS
<1>3. saves' = (saves \ {s}) \cup {n} /\ UNCHANGED <<prefs, settings, copy, shown>>
  BY <1>2 DEF ReadSettings
<1>4. /\ n = [tab |-> n.tab, control |-> n.control, at |-> n.at, body |-> n.body, knew |-> n.knew,
              drops |-> n.drops, nr |-> n.nr]
      /\ n.at = "merged" /\ n.body = Merged(s) /\ n.knew = KnownOf(s) /\ n.drops = s.drops
  BY <1>1, <1>2 DEF SaveOK
<1>5. Merged(s) \in Configured /\ KnownOf(s) \ s.drops \subseteq SettingKept(Merged(s))
  <2>1. CASE s.control = "muted"
    <3>1. Merged(s) \in Configured /\ Merged(s).muted = s.body.muted /\ Merged(s).digest = settings.digest
      BY <1>1, <2>1 DEF Merged, Configured
    <3>2. \A i \in s.knew \ s.drops : i[1] = "muted" => \E y \in s.body.muted : i = <<"muted", y>>
      BY <1>1, <2>1 DEF SaveOK
    <3>3. ASSUME NEW i \in s.knew \ s.drops, i[1] = "muted"
          PROVE  i \in SettingKept(Merged(s))
      BY <3>1, <3>2, <3>3 DEF SettingKept
    <3>4. \A i \in SettingKept(settings) : i[1] # "muted" => i = <<"digest", settings.digest>>
      BY DEF SettingKept
    <3>5. <<"digest", settings.digest>> \in SettingKept(Merged(s))
      BY <3>1 DEF SettingKept
    <3> QED BY <2>1, <3>1, <3>3, <3>4, <3>5 DEF KnownOf
  <2>2. CASE s.control = "digest"
    <3>1. Merged(s) \in Configured /\ Merged(s).muted = settings.muted
      BY <1>1, <2>2 DEF Merged, Configured
    <3>2. <<"digest", settings.digest>> \in s.drops
      BY <1>1, <2>2 DEF SaveOK, Configured
    <3> QED BY <2>2, <3>1, <3>2 DEF KnownOf, SettingKept
  <2> QED BY <1>1, <2>1, <2>2
<1>6. SaveOK(n)
  BY <1>4, <1>5 DEF SaveOK
<1> QED BY <1>3, <1>6, SavesStay DEF PrefsInv, PrefsOK

\* What is gone by a write was to go, or unknown to what was merged.
LEMMA WriteIsOK ==
  ASSUME PrefsInv, NEW s \in saves, WriteSettings(s)
  PROVE  /\ PrefsInv' /\ prefs' = prefs
         /\ \A x \in SettingKept(settings) : x \notin SettingKept(settings') =>
              \E y \in saves \ saves' : y.at = "merged" /\ (x \notin y.knew \/ x \in y.drops)
<1>1. SaveOK(s) /\ s.at = "merged"
  BY DEF PrefsInv, WriteSettings
<1>2. s.body \in Configured /\ s.knew \ s.drops \subseteq SettingKept(s.body)
  BY <1>1 DEF SaveOK
<1>3. PICK n : n = [s EXCEPT !.at = "saved"]
  OBVIOUS
<1>4. saves' = (saves \ {s}) \cup {n} /\ settings' = s.body /\ UNCHANGED <<prefs, copy, shown>>
  BY <1>3 DEF WriteSettings
<1>5. n.at = "saved" /\ SaveOK(n)
  BY <1>1, <1>3 DEF SaveOK
<1>6. PrefsInv'
  BY <1>2, <1>4, <1>5, SavesStay DEF PrefsInv, PrefsOK
<1>7. s \in saves \ saves'
  BY <1>1, <1>4, <1>5
<1> QED BY <1>1, <1>2, <1>4, <1>6, <1>7

LEMMA LessIsSaved ==
  ASSUME PrefsInv, saves' \subseteq saves, UNCHANGED <<prefs, settings, copy, shown>>
  PROVE  PrefsInv'
<1>1. \A x : SaveOK(x) <=> SaveOK(x)'
  BY DEF SaveOK, PrefsOK, Kept, SettingKept, Fields, Preferred, Configured
<1> QED BY <1>1 DEF PrefsInv, PrefsOK

LEMMA LoadIsOK ==
  ASSUME PrefsInv, NEW t \in Tabs, NEW q, Load(t, q)
  PROVE  PrefsInv' /\ UNCHANGED <<prefs, settings>>
<1>1. CASE LoadFails(t, q) \/ Visit(t, q)
  BY <1>1, LessIsSaved DEF LoadFails, Visit
<1>2. CASE Loaded(t, q)
  <2>1. \A x : SaveOK(x) <=> SaveOK(x)'
    BY DEF SaveOK, PrefsOK, Kept, SettingKept, Fields, Preferred, Configured
  <2>2. /\ UNCHANGED <<prefs, settings, saves>>
        /\ copy' \in {copy, [copy EXCEPT ![t] = prefs]} /\ shown' \in {shown, [shown EXCEPT ![t] = settings]}
    BY <1>2 DEF Loaded
  <2> QED BY <2>1, <2>2 DEF PrefsInv, PrefsOK
<1> QED BY <1>1, <1>2 DEF Load

Unlost ==
  /\ \A x \in Kept(prefs) : x \notin Kept(prefs') =>
       \E s \in saves \ saves' : s.at = "sent" /\ (x \notin s.knew \/ x \in s.drops)
  /\ \A x \in SettingKept(settings) : x \notin SettingKept(settings') =>
       \E s \in saves \ saves' : s.at = "merged" /\ (x \notin s.knew \/ x \in s.drops)

LEMMA NothingLost == ASSUME UNCHANGED <<prefs, settings>> PROVE Unlost
BY DEF Unlost

LEMMA SaveStep ==
  ASSUME PrefsInv, NEW s \in saves, Save(s)
  PROVE  PrefsInv' /\ Unlost
<1>1. CASE Patch(s)
  BY <1>1, PatchIsOK DEF Unlost
<1>2. CASE ReadSettings(s)
  BY <1>2, ReadIsOK, NothingLost
<1>3. CASE WriteSettings(s)
  BY <1>3, WriteIsOK DEF Unlost
<1>4. CASE Answered(s)
  BY <1>4, LessIsSaved, NothingLost DEF Answered
<1>5. CASE SaveFails(s)
  BY <1>5, LessIsSaved, NothingLost DEF SaveFails
<1> QED BY <1>1, <1>2, <1>3, <1>4, <1>5 DEF Save

LEMMA PrefsStep == PrefsInv /\ [Next]_vars => PrefsInv' /\ (Unlost \/ UNCHANGED prefVars)
<1> SUFFICES ASSUME PrefsInv, [Next]_vars
             PROVE  PrefsInv' /\ (Unlost \/ UNCHANGED prefVars)
  OBVIOUS
<1>1. CASE UNCHANGED prefVars
  BY <1>1, LessIsSaved DEF prefVars
<1>2. CASE PreferencesNext
  <2>1. ASSUME NEW t \in Tabs, \/ Load(t, "preferences")
                               \/ \E po \in Pos : TogglePin(t, po)
                               \/ \E v \in Views : SaveView(t, v) \/ DeleteView(t, v)
                               \/ \E table \in Tables, l \in Layouts : SetLayout(t, table, l)
                               \/ \E l \in Landings : SetLanding(t, l)
        PROVE  PrefsInv' /\ UNCHANGED <<prefs, settings>>
    BY <2>1, LoadIsOK, PinSent, ViewSaved, ViewDeleted, LayoutSent, LandingSent
  <2> QED BY <1>2, <2>1, SaveStep, NothingLost DEF PreferencesNext
<1>3. CASE SettingsNext
  <2>1. ASSUME NEW t \in Tabs, \/ Load(t, "settings")
                               \/ \E y \in Types : Mute(t, y)
                               \/ SwitchDigest(t)
        PROVE  PrefsInv' /\ UNCHANGED <<prefs, settings>>
    BY <2>1, LoadIsOK, MuteSent, DigestSent
  <2> QED BY <1>3, <2>1, SaveStep, NothingLost DEF SettingsNext
<1>4. UNCHANGED prefVars \/ PreferencesNext \/ SettingsNext
  BY Zenon DEF Next, vars
<1> QED BY <1>1, <1>2, <1>3, <1>4

\* What a person or a tenant has stored goes only when somebody asked for it, or
\* to a save that was made without knowing it (LifecyclePreferencesBar.tsx:209,
\* SettingsPage.tsx:175, routes/settings.ts:75-91).
THEOREM OnlyUnseenIsLost == Spec => LostOnlyToUnseen
<1>1. Init => PrefsInv
  BY PreferencesAssumption DEF Init, PreferencesInit, PrefsInv, PrefsOK
<1>2. PrefsInv /\ [Next]_vars => PrefsInv'
  BY PrefsStep
<1>3. PrefsInv /\ [Next]_vars =>
        [/\ \A x \in Kept(prefs) : x \notin Kept(prefs') =>
              \E s \in saves \ saves' : s.at = "sent" /\ (x \notin s.knew \/ x \in s.drops)
         /\ \A x \in SettingKept(settings) : x \notin SettingKept(settings') =>
              \E s \in saves \ saves' : s.at = "merged" /\ (x \notin s.knew \/ x \in s.drops)]_prefVars
  BY PrefsStep, Zenon DEF Unlost
<1> QED BY <1>1, <1>2, <1>3, PTL DEF Spec, LostOnlyToUnseen
=============================================================================
