------------------------------ MODULE Launcher ------------------------------
(***************************************************************************)
(* What happens before the desktop hub starts its processes: the licence   *)
(* gate and the update gate (apps/desktop/src/license.ts, license-store.ts,*)
(* license-window.ts, auto-update.ts, the start of main.ts), over the two  *)
(* files they keep: license.json and the pendingWhatsNew of config.json.   *)
(*                                                                         *)
(* A licence key is a record: does its signature verify, and on which day  *)
(* does it renew.  Days and versions are numbers.  The update server, the  *)
(* installer and the person at the keyboard are the environment.           *)
(***************************************************************************)
EXTENDS Integers

CONSTANTS
  Keys,       \* licence keys: [valid |-> BOOLEAN, renews |-> day]
  NoKey, NoFile, NoVersion,
  TrialDays, WarnDays, GraceDays,
  Broken,     \* versions whose boot fails
  MaxDay, MaxVersion, MaxMishaps  \* bounds

ASSUME LauncherAssumption ==
  /\ TrialDays \in Nat /\ WarnDays \in Nat /\ GraceDays \in Nat
  /\ NoFile \notin [first : Nat, key : Keys \cup {NoKey}]
  /\ Broken \subseteq Nat /\ MaxDay \in Nat /\ MaxVersion \in Nat /\ MaxMishaps \in Nat

VARIABLES
  stage,    \* how far this launch has come
  now,      \* enforceLicenseGate's now: the day this launch began
  day,      \* today
  license,  \* license.json: [first, key], or NoFile
  version,  \* the installed version
  remote,   \* the latest release
  pending,  \* config.json pendingWhatsNew
  updated,  \* the installer started this launch, with --updated
  born,     \* history: the day of the first launch
  loaded,   \* history: versions whose window has loaded
  skipped,  \* history: this launch passed over the update gate
  mishaps

licenseVars == <<now, license, born>>
updateVars  == <<version, pending, updated, loaded, skipped>>
launchVars  == <<stage, day, remote, licenseVars, updateVars, mishaps>>

Stages == {"off", "license", "prompt", "update", "boot", "ready", "installing"}

LauncherInit ==
  /\ stage = "off" /\ now = 0 /\ day = 0
  /\ license = NoFile /\ born = 0
  /\ version = 1 /\ remote = 1 /\ pending = NoVersion /\ updated = FALSE
  /\ loaded = {} /\ skipped = FALSE /\ mishaps = 0
-----------------------------------------------------------------------------
(* The licence.                                                            *)

\* Slip: the day after the trial still counts.
TrialLonger(today, first) == IF today - first > TrialDays + 1 THEN "trial_expired" ELSE "allowed"

EvaluateTrialOnly(today, first) ==
  IF today - first > TrialDays THEN "trial_expired" ELSE "allowed"

\* A key that does not verify leaves the trial; one that does decides alone.
EvaluateLicense(today, first, key) ==
  IF key = NoKey \/ ~key.valid THEN EvaluateTrialOnly(today, first)
  ELSE LET left == key.renews - today IN
       IF left < -GraceDays THEN "license_expired"
       ELSE IF left <= WarnDays THEN "warned" ELSE "licensed"

Blocked(verdict) == verdict \in {"trial_expired", "license_expired"}

\* A candidate key decodes, verifies, and would open the gate.
Accepted(k, today) == k.valid /\ ~Blocked(EvaluateLicense(today, license.first, k))

\* ensureLicenseFile: a file that is missing, or cannot be read, is made anew.
Ensured(file, today) == IF file = NoFile THEN [first |-> today, key |-> NoKey] ELSE file

\* The process starts, and reads the clock once.
Launch == /\ stage = "off"
          /\ stage' = "license" /\ now' = day /\ skipped' = FALSE
          /\ license' = Ensured(license, day)
          /\ born' = IF license = NoFile /\ mishaps = 0 THEN day ELSE born
          /\ UNCHANGED <<day, remote, version, pending, updated, loaded, mishaps>>

Gate == /\ stage = "license"
        /\ stage' = IF Blocked(EvaluateLicense(now, license.first, license.key))
                    THEN "prompt" ELSE "update"
        /\ UNCHANGED <<day, remote, licenseVars, updateVars, mishaps>>

\* The prompt takes a key that verifies and would open the gate; the gate is
\* then tried again on what was saved.
EnterKey(k) ==
  /\ stage = "prompt"
  /\ Accepted(k, now)
  /\ license' = [license EXCEPT !.key = k]
  /\ stage' = "license"
  /\ UNCHANGED <<day, remote, now, born, updateVars, mishaps>>

CancelPrompt == /\ stage = "prompt" /\ stage' = "off" /\ updated' = FALSE
                /\ UNCHANGED <<day, remote, licenseVars, version, pending, loaded, skipped, mishaps>>

\* Help menu: the same checks, against the clock of that moment.
MenuKey(k) ==
  /\ stage = "ready"
  /\ Accepted(k, day)
  /\ license' = [license EXCEPT !.key = k]
  /\ UNCHANGED <<stage, day, remote, now, born, updateVars, mishaps>>

Mishap == mishaps < MaxMishaps /\ mishaps' = mishaps + 1

\* The file cannot be read, so it is written anew and its key is lost.
LicenseUnreadable ==
  /\ stage = "off" /\ license # NoFile /\ Mishap
  /\ license' = NoFile
  /\ UNCHANGED <<stage, day, remote, now, born, updateVars>>

\* Writing it throws: the gate is open ("fail-open").
GateThrows == /\ stage = "license" /\ Mishap
              /\ stage' = "update"
              /\ UNCHANGED <<day, remote, licenseVars, updateVars>>
-----------------------------------------------------------------------------
(* Updates.                                                                *)

IsPostUpdateRelaunch == updated \/ (pending # NoVersion /\ pending = version)

SkipGate == /\ stage = "update" /\ IsPostUpdateRelaunch
            /\ stage' = "boot" /\ skipped' = TRUE /\ updated' = FALSE
            /\ UNCHANGED <<day, remote, licenseVars, version, pending, loaded, mishaps>>

\* The check or the download fails, or there is nothing newer.
NoUpdate == /\ stage = "update" /\ ~IsPostUpdateRelaunch
            /\ stage' = "boot"
            /\ UNCHANGED <<day, remote, licenseVars, updateVars, mishaps>>

\* The download is done: the marker is written, then quitAndInstall.
Install == /\ stage \in {"update", "ready"}
           /\ stage = "update" => ~IsPostUpdateRelaunch
           /\ remote > version
           /\ pending' = remote
           /\ stage' = "installing"
           /\ UNCHANGED <<day, remote, licenseVars, version, updated, loaded, skipped, mishaps>>

Installed == /\ stage = "installing"
             /\ \/ version' = pending /\ updated' = TRUE
                \/ UNCHANGED <<version, updated>>    \* the installer gave up
             /\ stage' = "off"
             /\ UNCHANGED <<day, remote, licenseVars, pending, loaded, skipped, mishaps>>

\* did-finish-load: consumePendingWhatsNew clears the marker of this version.
WindowLoads ==
  /\ stage = "boot" /\ version \notin Broken
  /\ stage' = "ready" /\ loaded' = loaded \cup {version}
  /\ pending' = IF pending = version THEN NoVersion ELSE pending
  /\ UNCHANGED <<day, remote, licenseVars, version, updated, skipped, mishaps>>

BootFails == /\ stage = "boot"
             /\ stage' = "off"
             /\ UNCHANGED <<day, remote, licenseVars, updateVars, mishaps>>

Quit == /\ stage = "ready"
        /\ stage' = "off"
        /\ UNCHANGED <<day, remote, licenseVars, updateVars, mishaps>>
-----------------------------------------------------------------------------
DayPasses == /\ day < MaxDay /\ day' = day + 1
             /\ UNCHANGED <<stage, remote, licenseVars, updateVars, mishaps>>

Publish == /\ remote < MaxVersion /\ remote' = remote + 1
           /\ UNCHANGED <<stage, day, licenseVars, updateVars, mishaps>>
-----------------------------------------------------------------------------
Licensed == license # NoFile /\ license.key # NoKey /\ license.key.valid

\* The gates hold.  The trial is given once: whatever launches, updates and
\* failed boots came before, a hub that gets past the licence gate without a valid
\* key was launched at most TRIAL_DAYS after its very first launch (license.ts:
\* 174-184, license-store.ts:28-34).  And the update gate is passed over only by a
\* version that has not opened its window yet, the first launch after its
\* installation or a later one whose boot failed (auto-update.ts:79-83, 236-245,
\* 362-373).
GatesHold ==
  /\ stage \in {"update", "boot"} /\ mishaps = 0 /\ ~Licensed => now - born <= TrialDays
  /\ stage = "boot" /\ skipped => version \notin loaded
=============================================================================
