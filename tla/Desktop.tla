------------------------------ MODULE Desktop ------------------------------
(***************************************************************************)
(* The desktop hub: one Electron process that runs Postgres and the API as *)
(* children, makes and restores backups by stopping them, and stops them   *)
(* when it quits (apps/desktop/src/main.ts, backup-actions.ts,             *)
(* backup-core.ts).  The gates it passes first are those of Launcher.      *)
(*                                                                         *)
(* The database and the tree of raw files are each known by a generation:  *)
(* they have the same one as long as they belong together.  A child that   *)
(* is killed reports its signal, as it does on Windows, the build's target.*)
(***************************************************************************)
EXTENDS Launcher

CONSTANTS
  Ops,     \* menu operations that may be under way at once
  MaxGen,  \* bound: files ingested
  MaxOps   \* bound: operations begun

ASSUME DesktopAssumption == MaxGen \in Nat /\ MaxOps \in Nat

VARIABLES
  pg,        \* the Postgres process
  pgRef,     \* main.ts pg: no instance, the running one, or one that never started
  api,       \* the API child
  apiRef,    \* is it the one apiChild names?
  restarted, \* restartedOnce
  boot,      \* where boot() stands; "done" is bootComplete with the runtime registered
  shut,      \* where shutdown() stands
  quitting,  \* app.quit() has been called and nothing will prevent it
  db, raw,   \* generation of pgdata and of raw/, or what a cut copy left
  zip,       \* the backup on disk
  op,        \* per operation: [what, pc]
  ops,
  overlap,   \* history: two operations were under way at once
  cut,       \* history: a restore failed or was cut short
  hot,       \* history: pgdata was copied while Postgres ran on it
  kept,      \* history: a restored backup held no files, and the hub's own stayed
  lost       \* history: a running Postgres was forgotten: a second one was started
             \* beside it, or stopping it failed

childVars  == <<pg, pgRef, api, apiRef, restarted, lost>>
quitVars   == <<boot, shut, quitting>>
dataVars   == <<db, raw, zip>>
opVars     == <<op, ops, overlap, cut, hot, kept>>
hubVars    == <<childVars, quitVars, dataVars, opVars>>
desktopVars == <<launchVars, hubVars>>

\* What a directory holds that holds no generation.
Removed == -1
Torn    == -2
Fresh   == -3
Absent  == -4

\* The generation before the first file: raw/ is empty.
NoFiles == 0

NoOp  == [what |-> "none", pc |-> "idle"]
NoZip == [db |-> Absent, raw |-> Absent]

DesktopInit ==
  /\ LauncherInit
  /\ pg = "down" /\ pgRef = "none" /\ api = "none" /\ apiRef = FALSE /\ restarted = FALSE
  /\ boot = "no" /\ shut = "no" /\ quitting = FALSE
  /\ db = 0 /\ raw = 0 /\ zip = NoZip
  /\ op = [o \in Ops |-> NoOp] /\ ops = 0
  /\ overlap = FALSE /\ cut = FALSE /\ hot = FALSE /\ kept = FALSE /\ lost = FALSE
-----------------------------------------------------------------------------
(* The children.                                                           *)

\* startPostgres and runMigrations.  A second server on a directory in use, or
\* one on a torn directory, does not start; an empty directory gets a new,
\* empty cluster.  A late handshake or a failed migration leaves it running.
PostgresStarts ==
  /\ pg = "down" /\ db # Torn
  /\ pg' = "up" /\ pgRef' = "live"
  /\ db' = IF db = Removed THEN Fresh ELSE db
  /\ UNCHANGED lost

PostgresRefuses ==
  /\ pgRef' = IF pg = "down" /\ db # Torn THEN "live" ELSE "dead"
  /\ IF pg = "down" /\ db # Torn THEN pg' = "up" ELSE UNCHANGED pg
  /\ db' = IF db = Removed /\ pg = "down" THEN Fresh ELSE db
  /\ lost' = (lost \/ pg = "up")

\* stopPostgres: an error of stop() is logged and the instance forgotten all the
\* same; whoever called goes on, with Postgres still running.
StopPostgres ==
  /\ pgRef' = "none"
  /\ \/ /\ pg' = IF pgRef = "live" THEN "down" ELSE pg
        /\ UNCHANGED <<lost, mishaps>>
     \/ /\ pgRef = "live" /\ pg = "up" /\ Mishap
        /\ lost' = TRUE /\ UNCHANGED pg

\* startApiChild: a second child cannot bind the port and exits; its handler
\* then clears apiChild and spends the one restart.
Spawn == IF api = "none" THEN /\ api' = "starting" /\ apiRef' = TRUE
                              /\ UNCHANGED restarted
         ELSE /\ apiRef' = FALSE /\ restarted' = TRUE
              /\ UNCHANGED api

StopApi == /\ api' = IF apiRef THEN "none" ELSE api
           /\ apiRef' = FALSE
           /\ UNCHANGED restarted

ApiListens == /\ api = "starting" /\ api' = "up"
              /\ UNCHANGED <<launchVars, pg, pgRef, lost, apiRef, restarted, quitVars, dataVars, opVars>>

\* The exit handler: one restart, and only after the boot is complete.
ApiDies ==
  /\ apiRef /\ Mishap
  /\ IF boot = "done" /\ ~restarted
       THEN api' = "starting" /\ restarted' = TRUE /\ UNCHANGED apiRef
       ELSE api' = "none" /\ apiRef' = FALSE /\ UNCHANGED restarted
  /\ UNCHANGED <<stage, day, remote, licenseVars, updateVars, pg, pgRef, lost, quitVars, dataVars, opVars>>

\* A file is ingested: its row and its bytes.  See Ingestion for the steps.
Ingest == /\ api = "up" /\ pg = "up" /\ db \in Nat /\ raw \in Nat
          /\ db < MaxGen /\ raw < MaxGen
          /\ db' = db + 1 /\ raw' = raw + 1
          /\ UNCHANGED <<launchVars, childVars, quitVars, zip, opVars>>
-----------------------------------------------------------------------------
(* boot().                                                                 *)

BootStep(from, to) == stage = "boot" /\ shut = "no" /\ boot = from /\ boot' = to

BootPostgres == /\ stage = "boot" /\ shut = "no" /\ boot = "no"
                /\ \/ PostgresStarts /\ boot' = "api"
                   \/ PostgresRefuses /\ boot' = "failed"
                /\ UNCHANGED <<launchVars, api, apiRef, restarted, shut, quitting, raw, zip, opVars>>

BootApi == /\ BootStep("api", "wait")
           /\ Spawn
           /\ UNCHANGED <<launchVars, pg, pgRef, lost, shut, quitting, dataVars, opVars>>

\* waitForHttp200: whoever answers on the port, or the time is up.
BootWait == /\ \/ BootStep("wait", "window") /\ api = "up"
               \/ BootStep("wait", "failed") /\ api # "up"
            /\ UNCHANGED <<launchVars, childVars, shut, quitting, dataVars, opVars>>

BootWindow == /\ BootStep("window", "done")
              /\ WindowLoads
              /\ UNCHANGED <<childVars, shut, quitting, dataVars, opVars>>

\* A boot that fails, for a version whose own code does at the last step.
BootBreaks == /\ BootStep("window", "failed") /\ version \in Broken
              /\ UNCHANGED <<launchVars, childVars, shut, quitting, dataVars, opVars>>
-----------------------------------------------------------------------------
(* Quitting.                                                               *)

Underway(o) == op[o].pc # "idle"

\* shutdown() after the last window was closed, or after boot() threw: its
\* caller waits for it before app.quit().
ShutdownAwaited ==
  /\ shut = "no"
  /\ stage = "ready" \/ boot = "failed"
  /\ shut' = "api"
  /\ UNCHANGED <<launchVars, childVars, boot, quitting, dataVars, opVars>>

\* shutdown() from the menu or a signal closes the window itself: the handler
\* of window-all-closed finds a shutdown under way and calls app.quit() at once.
ShutdownOvertaken ==
  /\ shut = "no" /\ stage = "ready"
  /\ shut' = "api" /\ quitting' = TRUE
  /\ UNCHANGED <<launchVars, childVars, boot, dataVars, opVars>>

ShutdownApi == /\ shut = "api" /\ shut' = "pg"
               /\ StopApi
               /\ UNCHANGED <<launchVars, pg, pgRef, lost, boot, quitting, dataVars, opVars>>

ShutdownPostgres == /\ shut = "pg" /\ shut' = "over" /\ quitting' = TRUE
                    /\ StopPostgres
                    /\ UNCHANGED <<stage, day, remote, licenseVars, updateVars,
                                   api, apiRef, restarted, boot, dataVars, opVars>>

\* The process is gone, with everything in its memory; its children are not.
\* A restore that was under way stays as it is.
Gone == /\ boot' = "no" /\ shut' = "no" /\ quitting' = FALSE
        /\ pgRef' = "none" /\ apiRef' = FALSE /\ restarted' = FALSE
        /\ op' = [o \in Ops |-> NoOp]
        /\ cut' = (cut \/ \E o \in Ops : Underway(o) /\ op[o].what = "restore")
        /\ UNCHANGED <<pg, api, lost, dataVars, ops, overlap, hot, kept>>

Exit == /\ quitting
        /\ Gone
        /\ Quit \/ BootFails

\* quitAndInstall lets the process end without shutdown(), from the menu; at
\* the gate nothing runs yet.
ExitToInstall == Install /\ Gone

\* The machine goes off, and nothing of it runs any more.
PowerLoss == /\ stage \in {"boot", "ready"} /\ Mishap
             /\ stage' = "off" /\ pg' = "down" /\ api' = "none"
             /\ boot' = "no" /\ shut' = "no" /\ quitting' = FALSE
             /\ pgRef' = "none" /\ apiRef' = FALSE /\ restarted' = FALSE
             /\ op' = [o \in Ops |-> NoOp]
             /\ cut' = (cut \/ \E o \in Ops : Underway(o) /\ op[o].what = "restore")
             /\ UNCHANGED <<day, remote, licenseVars, updateVars, lost, dataVars, ops, overlap, hot, kept>>

\* Someone ends what a hub that is gone has left running.
Cleanup == /\ stage = "off" /\ (pg = "up" \/ api # "none")
           /\ pg' = "down" /\ api' = "none"
           /\ UNCHANGED <<launchVars, pgRef, apiRef, restarted, lost, quitVars, dataVars, opVars>>
-----------------------------------------------------------------------------
(* Export Backup and Restore from Backup.                                  *)

To(o, pc) == op' = [op EXCEPT ![o].pc = pc]

\* getDesktopRuntime, the dialogs, and the user's yes.
Begin(o, what) ==
  /\ stage = "ready" /\ shut = "no" /\ ~Underway(o) /\ ops < MaxOps
  /\ what = "restore" => zip # NoZip
  /\ op' = [op EXCEPT ![o] = [what |-> what, pc |-> "stopApi"]]
  /\ ops' = ops + 1
  /\ overlap' = (overlap \/ \E p \in Ops : Underway(p))
  /\ UNCHANGED <<launchVars, childVars, quitVars, dataVars, cut, hot, kept>>

OpStopApi(o) == /\ op[o].pc = "stopApi" /\ StopApi /\ To(o, "stopPg")
                /\ UNCHANGED <<launchVars, pg, pgRef, lost, quitVars, dataVars, ops, overlap, cut, hot, kept>>

\* Slip: only the API is stopped.
OpKeepsPostgres(o) ==
  /\ op[o].pc = "stopPg" /\ To(o, "copyDb")
  /\ UNCHANGED <<launchVars, childVars, quitVars, dataVars, ops, overlap, cut, hot, kept>>

OpStopPostgres(o) ==
  /\ op[o].pc = "stopPg" /\ StopPostgres /\ To(o, "copyDb")
  /\ UNCHANGED <<stage, day, remote, licenseVars, updateVars,
                 api, apiRef, restarted, quitVars, dataVars, ops, overlap, cut, hot, kept>>

\* createBackupZip: pgdata, then raw.  A failed one leaves an unusable file.
Archive(o) ==
  /\ op[o].what = "export"
  /\ \/ op[o].pc = "copyDb" /\ To(o, "copyRaw") /\ zip' = [db |-> db, raw |-> Absent]
     \/ op[o].pc = "copyRaw" /\ To(o, "startPg") /\ zip' = [zip EXCEPT !.raw = raw]
  /\ hot' = (hot \/ (op[o].pc = "copyDb" /\ pg = "up"))
  /\ UNCHANGED <<launchVars, childVars, quitVars, db, raw, ops, overlap, cut, kept>>

\* extractBackupZip accepts a finished archive; applyExtractedBackup removes
\* and copies pgdata, then raw.  An empty raw/ is not in the archive, and a
\* backup without raw/ leaves the hub's files where they are.
Unpacked == zip.raw # Absent /\ zip.db \notin {Torn, Removed}
Restored == IF zip.raw = NoFiles THEN raw ELSE zip.raw

\* Slip: files that are there already are left alone.
ApplyDbOnly(o) ==
  /\ op[o].what = "restore"
  /\ op[o].pc = "copyDb" /\ Unpacked /\ db' = zip.db /\ To(o, "startPg")
  /\ UNCHANGED <<launchVars, childVars, quitVars, raw, zip, ops, overlap, cut, hot, kept>>

Apply(o) ==
  /\ op[o].what = "restore"
  /\ \/ op[o].pc = "copyDb" /\ Unpacked /\ db' = Removed /\ To(o, "fillDb") /\ UNCHANGED raw
     \/ op[o].pc = "fillDb" /\ db' = zip.db /\ To(o, "copyRaw") /\ UNCHANGED raw
     \/ op[o].pc = "copyRaw" /\ raw' = Restored /\ To(o, "startPg") /\ UNCHANGED db
  /\ hot' = (hot \/ pg = "up")
  /\ kept' = (kept \/ (op[o].pc = "copyRaw" /\ Restored # zip.raw))
  /\ UNCHANGED <<launchVars, childVars, quitVars, zip, ops, overlap, cut>>

\* Any of these steps throws: what was removed or half copied stays so.
CopyThrows(o) ==
  /\ op[o].pc \in {"copyDb", "fillDb", "copyRaw"}
  /\ op[o].what = "restore" /\ op[o].pc = "copyDb" /\ Unpacked => mishaps < MaxMishaps
  /\ IF op[o].what = "restore" /\ op[o].pc = "copyDb" /\ ~Unpacked
       THEN UNCHANGED mishaps ELSE Mishap
  /\ To(o, "failPg")
  /\ db' = IF op[o].pc = "fillDb" THEN Torn ELSE db
  /\ raw' = IF op[o].what = "restore" /\ op[o].pc = "copyRaw" /\ zip.raw # NoFiles THEN Torn ELSE raw
  /\ cut' = (cut \/ op[o].pc = "fillDb" \/ (op[o].what = "restore" /\ op[o].pc = "copyRaw"))
  /\ UNCHANGED <<stage, day, remote, licenseVars, updateVars, childVars, quitVars, zip, ops, overlap, hot, kept>>

\* startPostgresStack: once in the try, once more in the catch.
OpStartPostgres(o) ==
  /\ op[o].pc \in {"startPg", "failPg"}
  /\ LET failing == op[o].pc = "failPg" IN
       \/ PostgresStarts /\ To(o, IF failing THEN "failApi" ELSE "startApi") /\ UNCHANGED mishaps
       \/ /\ PostgresRefuses
          /\ To(o, IF failing THEN "idle" ELSE "failPg")
          /\ IF pg = "up" \/ db = Torn THEN UNCHANGED mishaps ELSE Mishap
  /\ UNCHANGED <<stage, day, remote, licenseVars, updateVars,
                 api, apiRef, restarted, quitVars, raw, zip, ops, overlap, cut, hot, kept>>

OpStartApi(o) ==
  /\ \/ op[o].pc = "startApi" /\ To(o, "wait")
     \/ op[o].pc = "failApi" /\ To(o, "idle")
  /\ Spawn
  /\ UNCHANGED <<launchVars, pg, pgRef, lost, quitVars, dataVars, ops, overlap, cut, hot, kept>>

\* The new API answers and the operation reports success; or it does not in
\* time, and the catch begins with Postgres running.
OpWait(o) ==
  /\ op[o].pc = "wait"
  /\ \/ api = "up" /\ To(o, "idle")
     \/ api # "up" /\ To(o, "failPg")
  /\ UNCHANGED <<launchVars, childVars, quitVars, dataVars, ops, overlap, cut, hot, kept>>

OpStep(o) == \/ OpStopApi(o) \/ OpStopPostgres(o) \/ Archive(o) \/ Apply(o)
             \/ CopyThrows(o) \/ OpStartPostgres(o) \/ OpStartApi(o) \/ OpWait(o)
-----------------------------------------------------------------------------
\* The launcher's own steps, those of a process that has no children yet.
Launching == /\ \/ Launch \/ Gate \/ CancelPrompt \/ LicenseUnreadable \/ GateThrows
                \/ SkipGate \/ NoUpdate \/ Installed \/ DayPasses \/ Publish
                \/ \E k \in Keys : EnterKey(k) \/ MenuKey(k)
             /\ UNCHANGED hubVars

DesktopNext ==
  \/ Launching \/ ApiListens \/ ApiDies \/ Ingest
  \/ BootPostgres \/ BootApi \/ BootWait \/ BootWindow \/ BootBreaks
  \/ ShutdownAwaited \/ ShutdownOvertaken \/ ShutdownApi \/ ShutdownPostgres
  \/ Exit \/ ExitToInstall \/ PowerLoss \/ Cleanup
  \/ \E o \in Ops : OpStep(o) \/ Begin(o, "export") \/ Begin(o, "restore")

DesktopSpec == DesktopInit /\ [][DesktopNext]_desktopVars
-----------------------------------------------------------------------------
\* Backups are cold: pgdata is copied and replaced only while no Postgres runs
\* on it, unless two operations were begun at once, a Postgres was started beside
\* a running one, so that its handle is lost, or stopping it failed, which is
\* logged and passed over (backup-core.ts:4-7, backup-actions.ts:28-52,
\* main.ts:168-241).
ColdCopy == hot => overlap \/ lost

\* The database and the files belong together, whatever quits, crashes, failed
\* exports and restarts happened, unless a restore was cut short, two operations
\* ran into each other, the restored backup had been made before the first file
\* and left the hub's own files beside its rows, or a Postgres whose handle is
\* lost served an API of an earlier launch while a restore replaced both
\* (backup-core.ts:135-145).
DataBelongs ==
  (\A o \in Ops : op[o].what = "restore" => ~Underway(o))
    => db = raw \/ cut \/ overlap \/ kept \/ lost
=============================================================================
