------------------------------- MODULE Alerts -------------------------------
(***************************************************************************)
(* Alerts: detection passes find problems and upsert one row per problem,  *)
(* people acknowledge and snooze rows, the notifier is told of rows that   *)
(* became active (apps/api/src/services/alerts.ts, detection.ts,           *)
(* notifier.ts; jobs/handlers/detection.ts; routes/alerts.ts).             *)
(*                                                                         *)
(* A problem is a dedupe key: a transaction without its 997, a partner     *)
(* without traffic.  It is open while the detector's query finds it.  A    *)
(* pass looks at one problem after the other; each await is a step, and    *)
(* "now" is the time at which the pass began.  The notifier is live.       *)
(***************************************************************************)
EXTENDS Naturals, FiniteSets

CONSTANTS
  Problems,   \* dedupe keys
  Notifying,  \* the problems whose detector calls the notifier
  Passes,     \* passes that may run at once: the job handler, the CLI
  None,
  Suppress,   \* alertSuppressionMinutes
  Snooze,     \* the minutes a snooze asks for
  Horizon,    \* bound: the last instant
  MaxFaults   \* bound: awaited calls that fail, deliveries included

ASSUME AlertsAssumption ==
  /\ Notifying \subseteq Problems /\ None \notin Problems /\ IsFiniteSet(Passes)
  /\ Suppress \in Nat \ {0} /\ Snooze \in Nat \ {0}
  /\ Horizon \in Nat /\ MaxFaults \in Nat

VARIABLES
  now,
  open,      \* problems that a detector would find now
  settled,   \* problems that are over for good
  alert,     \* per problem: its row, or None
  pass,      \* per pass: what it has to look at, what it has read
  bulk,      \* a bulk acknowledgment: rows it has yet to write, and its time
  noted,     \* history: rows that were told of since they became active
  missed,    \* history: rows whose one attempt at that failed or was never made
  faults

world   == <<open, settled>>
notes   == <<noted, missed>>
vars    == <<now, world, alert, pass, bulk, notes, faults>>

Row(status, until) == [status |-> status, until |-> until]
Later(t, d) == IF t + d > Horizon THEN Horizon ELSE t + d

NoPass == [at |-> "idle", todo |-> {}, key |-> None, seen |-> None, now |-> 0]
NoBulk == [todo |-> {}, now |-> 0]

Fault == faults < MaxFaults /\ faults' = faults + 1
-----------------------------------------------------------------------------
Init == /\ now = 0
        /\ open = {} /\ settled = {}
        /\ alert = [k \in Problems |-> None]
        /\ pass = [d \in Passes |-> NoPass]
        /\ bulk = NoBulk
        /\ noted = {} /\ missed = {}
        /\ faults = 0

Advance == /\ now < Horizon
           /\ now' = now + 1
           /\ UNCHANGED <<world, alert, pass, bulk, notes, faults>>

\* The query begins, or stops, to find the problem.
Arise(k) == /\ k \notin open \cup settled
            /\ open' = open \cup {k}
            /\ UNCHANGED <<now, settled, alert, pass, bulk, notes, faults>>

Settle(k) == /\ k \in open
             /\ open' = open \ {k}
             /\ settled' = settled \cup {k}
             /\ UNCHANGED <<now, alert, pass, bulk, notes, faults>>
-----------------------------------------------------------------------------
(* A detection pass.                                                       *)

PassBegin(d) ==
  /\ pass[d].at = "idle"
  /\ pass' = [pass EXCEPT ![d] = [NoPass EXCEPT !.at = "scan", !.todo = Problems,
                                                !.now = now]]
  /\ UNCHANGED <<now, world, alert, bulk, notes, faults>>


\* The detector looks at a problem; for one that is open, createAlert reads
\* the row with its dedupe key.
Look(d, k) ==
  /\ pass[d].at = "scan"
  /\ k \in pass[d].todo
  /\ pass' = IF k \in open
             THEN [pass EXCEPT ![d].todo = @ \ {k}, ![d].at = "write",
                               ![d].key = k, ![d].seen = alert[k]]
             ELSE [pass EXCEPT ![d].todo = @ \ {k}]
  /\ UNCHANGED <<now, world, alert, bulk, notes, faults>>

\* Slip: suppression is not looked at.
ReactivateAlways(row, t) == row.status = "acknowledged"

\* createAlert flips an acknowledged row back when its suppression is over.
Reactivate(row, t) == row.status = "acknowledged" /\ row.until <= t

Proceed(d, k, notify) ==
  pass' = IF notify /\ k \in Notifying
          THEN [pass EXCEPT ![d].at = "notify", ![d].seen = None]
          ELSE [pass EXCEPT ![d].at = "scan", ![d].seen = None, ![d].key = None]

\* The row of k becomes row; where it becomes active by that, it is to be told of.
Put(k, row) ==
  /\ alert' = [alert EXCEPT ![k] = row]
  /\ IF row.status = "active" /\ (alert[k] = None \/ alert[k].status # "active")
     THEN noted' = noted \ {k} /\ missed' = missed \ {k} ELSE UNCHANGED notes

\* A new row is created; a concurrent pass may have done so, and then the
\* unique key makes this one throw.
Create(d) ==
  LET k == pass[d].key  row == Row("active", Later(pass[d].now, Suppress)) IN
  /\ pass[d].at = "write" /\ pass[d].seen = None
  /\ IF alert[k] = None
     THEN Put(k, row) /\ Proceed(d, k, TRUE)
     ELSE pass' = [pass EXCEPT ![d] = NoPass] /\ UNCHANGED <<alert, notes>>
  /\ UNCHANGED <<now, world, bulk, faults>>

\* Slip: the notifier is told of every outcome.
UpdateNotifying(d) ==
  LET k == pass[d].key  seen == pass[d].seen
      flip == Reactivate(seen, pass[d].now)
      row == Row(IF flip THEN "active" ELSE seen.status, alert[k].until)
  IN /\ pass[d].at = "write" /\ seen # None
     /\ Put(k, row)
     /\ Proceed(d, k, TRUE)
     /\ UNCHANGED <<now, world, bulk, faults>>

\* An existing row is updated: its status is the one that was read, unless it
\* is reactivated.  suppressUntil is not written.
Update(d) ==
  LET k == pass[d].key  seen == pass[d].seen
      flip == Reactivate(seen, pass[d].now)
      row == Row(IF flip THEN "active" ELSE seen.status, alert[k].until)
  IN /\ pass[d].at = "write" /\ seen # None
     /\ Put(k, row)
     /\ Proceed(d, k, flip)
     /\ UNCHANGED <<now, world, bulk, faults>>

Told(d) == pass' = [pass EXCEPT ![d].at = "scan", ![d].key = None]

\* notify delivers, or catches the failure, or finds the type muted or the hour
\* quiet.  The pass goes on to the next problem all the same.
Deliver(d) ==
  /\ pass[d].at = "notify"
  /\ noted' = noted \cup {pass[d].key}
  /\ Told(d)
  /\ UNCHANGED <<now, world, alert, bulk, missed, faults>>

Misses(d) == missed' = missed \cup {pass[d].key} /\ UNCHANGED noted

DeliveryFails(d) ==
  /\ Fault
  /\ pass[d].at = "notify"
  /\ Misses(d) /\ Told(d)
  /\ UNCHANGED <<now, world, alert, bulk>>

Muted(d) ==
  /\ pass[d].at = "notify"
  /\ Misses(d) /\ Told(d)
  /\ UNCHANGED <<now, world, alert, bulk, faults>>

PassEnd(d) ==
  /\ pass[d].at = "scan" /\ pass[d].todo = {}
  /\ pass' = [pass EXCEPT ![d] = NoPass]
  /\ UNCHANGED <<now, world, alert, bulk, notes, faults>>

\* A query or write throws, or the process dies: the rest of the pass is lost.
Abort(d) ==
  /\ Fault
  /\ pass[d].at # "idle"
  /\ pass' = [pass EXCEPT ![d] = NoPass]
  /\ IF pass[d].at = "notify" THEN Misses(d) ELSE UNCHANGED notes
  /\ UNCHANGED <<now, world, alert, bulk>>
-----------------------------------------------------------------------------
(* People.                                                                 *)

Ack(k) ==
  /\ alert[k] # None
  /\ alert' = [alert EXCEPT ![k] = Row("acknowledged", Later(now, Suppress))]
  /\ UNCHANGED <<now, world, pass, bulk, notes, faults>>

SnoozeAlert(k) ==
  /\ alert[k] # None
  /\ alert' = [alert EXCEPT ![k].until = Later(now, Snooze)]
  /\ UNCHANGED <<now, world, pass, bulk, notes, faults>>

\* bulkAcknowledgeAlerts lists the active rows, then writes one after the other.
BulkBegin ==
  /\ bulk.todo = {}
  /\ bulk' = [todo |-> {k \in Problems : alert[k] # None /\ alert[k].status = "active"},
              now |-> now]
  /\ bulk'.todo # {}
  /\ UNCHANGED <<now, world, alert, pass, notes, faults>>

BulkAck(k) ==
  /\ k \in bulk.todo
  /\ alert' = [alert EXCEPT ![k] = Row("acknowledged", Later(bulk.now, Suppress))]
  /\ bulk' = IF bulk.todo = {k} THEN NoBulk ELSE [bulk EXCEPT !.todo = @ \ {k}]
  /\ UNCHANGED <<now, world, pass, notes, faults>>
-----------------------------------------------------------------------------
PassStep(d) == \/ PassBegin(d) \/ PassEnd(d) \/ Create(d) \/ Update(d)
               \/ Deliver(d) \/ \E k \in Problems : Look(d, k)

Trouble(d) == DeliveryFails(d) \/ Muted(d) \/ Abort(d)

People == BulkBegin \/ \E k \in Problems : Ack(k) \/ SnoozeAlert(k) \/ BulkAck(k)

Next == \/ Advance
        \/ \E k \in Problems : Arise(k) \/ Settle(k)
        \/ \E d \in Passes : PassStep(d) \/ Trouble(d)
        \/ People

Spec == Init /\ [][Next]_vars

\* Time passes, and a pass is followed by another (scheduleNext in a finally);
\* its awaited calls settle.  Nobody has to acknowledge anything.
Fairness == WF_vars(Advance) /\ \A d \in Passes : WF_vars(PassStep(d))

FairSpec == Spec /\ Fairness
-----------------------------------------------------------------------------
Rows == [status : {"active", "acknowledged"}, until : 0..Horizon]

\* With one pass at a time, a row gets one attempt at a notification each time
\* it becomes active (alerts.ts:86-91, detection.ts:205).  While it stays active
\* it is not told of again, so steady-state noise stays low; and where the
\* attempt failed, was muted, or the pass ended before it, nobody is told of the
\* row at all.  That is not what the notifier says of a lost delivery: "the next
\* detection pass re-emits" (notifier.ts:17-18, 209).
OneNotePerActivation ==
  Cardinality(Passes) = 1 =>
    \A d \in Passes :
      pass[d].at = "notify" => pass[d].key \notin noted /\ pass[d].key \notin missed

Acked(k) == alert[k] # None /\ alert[k].status = "acknowledged"
Suppressed(k) == alert[k].until > now

\* A row that is acknowledged and suppressed goes back to active only through a
\* pass that had read it before it was acknowledged (alerts.ts:106-122).
AckYieldsOnlyToStaleRead ==
  [][\A k \in Problems :
       Acked(k) /\ Suppressed(k) /\ alert'[k].status = "active" =>
         \E d \in Passes : /\ pass[d].at = "write" /\ pass[d].key = k
                           /\ pass[d].seen # alert[k]]_vars

=============================================================================
