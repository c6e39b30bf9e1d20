----------------------------- MODULE AlertsProofs -----------------------------
(***************************************************************************)
(* Theorems about Alerts, for any number of problems and every value of    *)
(* the bounds.  What an acknowledgment yields to is proved for any number  *)
(* of passes at once; that a note is not repeated holds for one, and two   *)
(* passes would break it.                                                  *)
(***************************************************************************)
EXTENDS Alerts, FiniteSetTheorems, TLAPS

Looking == {"write", "notify"}

PassRecords == [at : {"idle", "scan"} \cup Looking, todo : SUBSET Problems,
                key : Problems \cup {None}, seen : Rows \cup {None}, now : 0..Horizon]

\* The rows, and the passes and bulk acknowledgments under way: none of them
\* began in the future, one that writes or notifies has its problem, and a row
\* that it has read is still there.
TypeInv ==
  /\ now \in 0..Horizon
  /\ alert \in [Problems -> Rows \cup {None}]
  /\ pass \in [Passes -> PassRecords]
  /\ bulk \in [todo : SUBSET Problems, now : 0..Horizon]
  /\ \A d \in Passes : /\ pass[d].now <= now
                       /\ pass[d].at \in Looking => pass[d].key \in Problems
                       /\ pass[d].at = "write" /\ pass[d].seen # None
                            => alert[pass[d].key] \in Rows

LEMMA LaterType ==
  ASSUME NEW t \in 0..Horizon, NEW m \in Nat
  PROVE  Later(t, m) \in 0..Horizon
BY AlertsAssumption DEF Later

LEMMA RowType ==
  ASSUME NEW s \in {"active", "acknowledged"}, NEW t \in 0..Horizon
  PROVE  Row(s, t) \in Rows /\ Row(s, t).status = s /\ Row(s, t).until = t
BY DEF Row, Rows

\* No row is ever deleted.
RowsStay == /\ alert' \in [Problems -> Rows \cup {None}]
            /\ \A p \in Problems : alert[p] \in Rows => alert'[p] \in Rows

\* A row that is written leaves the others as they are.
LEMMA RowWritten ==
  ASSUME NEW k \in Problems, NEW row \in Rows, alert \in [Problems -> Rows \cup {None}],
         alert' = [alert EXCEPT ![k] = row]
  PROVE  /\ alert'[k] = row
         /\ \A p \in Problems \ {k} : alert'[p] = alert[p]
         /\ RowsStay
BY DEF RowsStay

\* A pass that goes on, in a well-typed state.
PassMoves(d) ==
  /\ pass' \in [Passes -> PassRecords]
  /\ \A e \in Passes \ {d} : pass'[e] = pass[e]
  /\ pass'[d].now <= now
  /\ pass'[d].at \in Looking => pass'[d].key \in Problems
  /\ pass'[d].at = "write" /\ pass'[d].seen # None => alert'[pass'[d].key] \in Rows

LEMMA ProceedType ==
  ASSUME TypeInv, NEW d \in Passes, NEW k \in Problems, NEW notify \in BOOLEAN,
         pass[d].key = k, Proceed(d, k, notify)
  PROVE  PassMoves(d)
<1>1. pass[d] \in PassRecords /\ pass[d].now <= now
  BY DEF TypeInv
<1>2. CASE notify /\ k \in Notifying
  <2>1. pass' = [pass EXCEPT ![d].at = "notify", ![d].seen = None]
    BY <1>2 DEF Proceed
  <2> QED
    BY <1>1, <2>1 DEF TypeInv, PassMoves, PassRecords, Looking
<1>3. CASE ~(notify /\ k \in Notifying)
  <2>1. pass' = [pass EXCEPT ![d].at = "scan", ![d].seen = None, ![d].key = None]
    BY <1>3 DEF Proceed
  <2> QED
    BY <1>1, <2>1 DEF TypeInv, PassMoves, PassRecords, Looking
<1> QED
  BY <1>2, <1>3

LEMMA PassMovesInv ==
  ASSUME TypeInv, NEW d \in Passes, PassMoves(d), RowsStay, UNCHANGED <<now, bulk>>
  PROVE  TypeInv'
<1>1. now' \in 0..Horizon /\ bulk' \in [todo : SUBSET Problems, now : 0..Horizon]
  BY DEF TypeInv
<1>2. /\ alert' \in [Problems -> Rows \cup {None}]
      /\ pass' \in [Passes -> PassRecords]
  BY DEF PassMoves, RowsStay
<1>3. ASSUME NEW e \in Passes
      PROVE  /\ pass'[e].now <= now'
             /\ pass'[e].at \in Looking => pass'[e].key \in Problems
             /\ pass'[e].at = "write" /\ pass'[e].seen # None
                  => alert'[pass'[e].key] \in Rows
  <2>1. CASE e = d
    BY <2>1 DEF PassMoves
  <2>2. CASE e # d
    <3>1. pass'[e] = pass[e]
      BY <2>2 DEF PassMoves
    <3> QED
      BY <3>1 DEF TypeInv, RowsStay, Looking
  <2> QED
    BY <2>1, <2>2
<1> QED
  BY <1>1, <1>2, <1>3 DEF TypeInv

\* What createAlert writes: a row of the type, into the problem it looked at.
CreatedRow(d) == Row("active", Later(pass[d].now, Suppress))
UpdatedRow(d) ==
  Row(IF Reactivate(pass[d].seen, pass[d].now) THEN "active" ELSE pass[d].seen.status,
      alert[pass[d].key].until)

LEMMA NoPassType == NoPass \in PassRecords
BY AlertsAssumption DEF NoPass, PassRecords, Looking

LEMMA ToldType ==
  ASSUME TypeInv, NEW d \in Passes, Told(d), UNCHANGED <<now, bulk, alert>>
  PROVE  TypeInv'
<1>1. pass[d] \in PassRecords /\ pass[d].now <= now
  BY DEF TypeInv
<1>2. pass'[d] = [pass[d] EXCEPT !.at = "scan", !.key = None]
  BY DEF TypeInv, Told
<1>3. /\ pass'[d] \in PassRecords
      /\ pass'[d].at = "scan" /\ pass'[d].now = pass[d].now
  BY <1>1, <1>2 DEF PassRecords
<1>4. PassMoves(d)
  BY <1>1, <1>3 DEF TypeInv, PassMoves, Looking, Told
<1> QED
  BY <1>4, PassMovesInv DEF TypeInv, RowsStay

LEMMA TypeInit == Init => TypeInv
BY AlertsAssumption, NoPassType DEF Init, TypeInv, NoPass, NoBulk, Looking

LEMMA PassStepType ==
  ASSUME TypeInv, NEW d \in Passes, PassStep(d)
  PROVE  TypeInv'
<1> USE DEF world, notes
<1>1. pass[d] \in PassRecords /\ pass[d].now <= now
  BY DEF TypeInv
<1>2. CASE PassBegin(d)
  <2>1. /\ pass' = [pass EXCEPT ![d] = [NoPass EXCEPT !.at = "scan", !.todo = Problems,
                                                      !.now = now]]
        /\ UNCHANGED <<now, bulk, alert>>
    BY <1>2 DEF PassBegin
  <2>2. /\ pass'[d] \in PassRecords
        /\ pass'[d].at = "scan" /\ pass'[d].now = now
    BY <2>1, NoPassType DEF TypeInv, PassRecords
  <2>3. PassMoves(d)
    BY <2>1, <2>2 DEF TypeInv, PassMoves, Looking
  <2> QED
    BY <2>1, <2>3, PassMovesInv DEF TypeInv, RowsStay
<1>3. CASE PassEnd(d)
  <2>1. pass' = [pass EXCEPT ![d] = NoPass] /\ UNCHANGED <<now, bulk, alert>>
    BY <1>3 DEF PassEnd
  <2>2. PassMoves(d)
    BY <2>1, NoPassType DEF TypeInv, PassMoves, NoPass, Looking
  <2> QED
    BY <2>1, <2>2, PassMovesInv DEF TypeInv, RowsStay
<1>4. CASE Create(d)
  <2> DEFINE k == pass[d].key
  <2>1. k \in Problems /\ UNCHANGED <<now, bulk>>
    BY <1>4 DEF Create, TypeInv, Looking
  <2>2. CASE alert[k] = None
    <3>1. alert' = [alert EXCEPT ![k] = CreatedRow(d)] /\ Proceed(d, k, TRUE)
      BY <1>4, <2>2 DEF Create, Put, CreatedRow
    <3>2. CreatedRow(d) \in Rows
      BY <1>1, LaterType, RowType, AlertsAssumption DEF CreatedRow, PassRecords
    <3>3. RowsStay
      BY <2>1, <3>1, <3>2, RowWritten DEF TypeInv
    <3> QED
      BY <2>1, <3>1, <3>3, ProceedType, PassMovesInv
  <2>3. CASE alert[k] # None
    <3>1. pass' = [pass EXCEPT ![d] = NoPass] /\ UNCHANGED alert
      BY <1>4, <2>3 DEF Create
    <3>2. PassMoves(d)
      BY <3>1, NoPassType DEF TypeInv, PassMoves, NoPass, Looking
    <3> QED
      BY <2>1, <3>1, <3>2, PassMovesInv DEF TypeInv, RowsStay
  <2> QED
    BY <2>2, <2>3
<1>5. CASE Update(d)
  <2> DEFINE k == pass[d].key
             flip == Reactivate(pass[d].seen, pass[d].now)
  <2>1. k \in Problems /\ pass[d].seen \in Rows /\ UNCHANGED <<now, bulk>>
    BY <1>1, <1>5 DEF Update, TypeInv, PassRecords, Looking
  <2>2. alert' = [alert EXCEPT ![k] = UpdatedRow(d)] /\ Proceed(d, k, flip)
    BY <1>5 DEF Update, Put, UpdatedRow
  <2>3. alert[k] \in Rows
    BY <1>5 DEF Update, TypeInv
  <2>4. UpdatedRow(d) \in Rows
    BY <2>1, <2>3, RowType DEF UpdatedRow, Rows
  <2>5. RowsStay
    BY <2>1, <2>2, <2>4, RowWritten DEF TypeInv
  <2>6. flip \in BOOLEAN
    BY DEF Reactivate
  <2> QED
    BY <2>1, <2>2, <2>5, <2>6, ProceedType, PassMovesInv
<1>6. CASE Deliver(d)
  <2>1. Told(d) /\ UNCHANGED <<now, bulk, alert>>
    BY <1>6 DEF Deliver
  <2> QED
    BY <2>1, ToldType
<1>7. ASSUME NEW k \in Problems, Look(d, k)
      PROVE  TypeInv'
  <2>1. UNCHANGED <<now, bulk, alert>> /\ k \in pass[d].todo
    BY <1>7 DEF Look
  <2>2. CASE k \in open
    <3>1. pass' = [pass EXCEPT ![d].todo = @ \ {k}, ![d].at = "write",
                               ![d].key = k, ![d].seen = alert[k]]
      BY <1>7, <2>2 DEF Look
    <3>2. PassMoves(d)
      BY <1>1, <2>1, <3>1 DEF TypeInv, PassMoves, PassRecords, Looking
    <3> QED
      BY <2>1, <3>2, PassMovesInv DEF TypeInv, RowsStay
  <2>3. CASE k \notin open
    <3>1. pass' = [pass EXCEPT ![d].todo = @ \ {k}]
      BY <1>7, <2>3 DEF Look
    <3>2. PassMoves(d)
      BY <1>1, <1>7, <2>1, <3>1 DEF Look, TypeInv, PassMoves, PassRecords, Looking
    <3> QED
      BY <2>1, <3>2, PassMovesInv DEF TypeInv, RowsStay
  <2> QED
    BY <2>2, <2>3
<1> QED
  BY <1>2, <1>3, <1>4, <1>5, <1>6, <1>7 DEF PassStep

LEMMA TroubleType ==
  ASSUME TypeInv, NEW d \in Passes, Trouble(d)
  PROVE  TypeInv'
<1>1. CASE DeliveryFails(d) \/ Muted(d)
  <2>1. Told(d) /\ UNCHANGED <<now, bulk, alert>>
    BY <1>1 DEF DeliveryFails, Muted
  <2> QED
    BY <2>1, ToldType
<1>2. CASE Abort(d)
  <2>1. pass' = [pass EXCEPT ![d] = NoPass] /\ UNCHANGED <<now, bulk, alert>>
    BY <1>2 DEF Abort
  <2>2. PassMoves(d)
    BY <2>1, NoPassType DEF TypeInv, PassMoves, NoPass, Looking
  <2> QED
    BY <2>1, <2>2, PassMovesInv DEF TypeInv, RowsStay
<1> QED
  BY <1>1, <1>2 DEF Trouble

\* An act of a person writes one row, of the type, and leaves the passes alone.
PersonWrites(k) == /\ UNCHANGED <<now, pass>>
                   /\ \E row \in Rows : alert' = [alert EXCEPT ![k] = row]

LEMMA AlertsOnly ==
  ASSUME TypeInv, RowsStay, UNCHANGED <<now, pass>>,
         bulk' \in [todo : SUBSET Problems, now : 0..Horizon]
  PROVE  TypeInv'
<1>1. ASSUME NEW d \in Passes, pass[d].at = "write" /\ pass[d].seen # None
      PROVE  alert'[pass[d].key] \in Rows
  BY <1>1 DEF TypeInv, RowsStay, Looking
<1> QED
  BY <1>1 DEF TypeInv, RowsStay

LEMMA AckWrites ==
  ASSUME TypeInv, NEW k \in Problems, Ack(k)
  PROVE  /\ alert' = [alert EXCEPT ![k] = Row("acknowledged", Later(now, Suppress))]
         /\ Row("acknowledged", Later(now, Suppress)) \in Rows
         /\ PersonWrites(k) /\ bulk' = bulk
<1>1. Row("acknowledged", Later(now, Suppress)) \in Rows
  BY LaterType, RowType, AlertsAssumption DEF TypeInv
<1> QED
  BY <1>1 DEF Ack, PersonWrites

LEMMA SnoozeWrites ==
  ASSUME TypeInv, NEW k \in Problems, SnoozeAlert(k)
  PROVE  /\ alert[k] \in Rows
         /\ alert' = [alert EXCEPT ![k] = Row(alert[k].status, Later(now, Snooze))]
         /\ PersonWrites(k) /\ bulk' = bulk
<1>1. alert[k] \in Rows
  BY DEF TypeInv, SnoozeAlert
<1>2. Later(now, Snooze) \in 0..Horizon
  BY LaterType, AlertsAssumption DEF TypeInv
<1>3. [alert[k] EXCEPT !.until = Later(now, Snooze)] = Row(alert[k].status, Later(now, Snooze))
  BY <1>1 DEF Row, Rows
<1>4. alert' = [alert EXCEPT ![k] = Row(alert[k].status, Later(now, Snooze))]
  BY <1>3 DEF SnoozeAlert
<1>5. Row(alert[k].status, Later(now, Snooze)) \in Rows
  BY <1>1, <1>2, RowType DEF Rows
<1> QED
  BY <1>1, <1>4, <1>5 DEF SnoozeAlert, PersonWrites

LEMMA BulkWrites ==
  ASSUME TypeInv, NEW k \in Problems, BulkAck(k)
  PROVE  /\ alert' = [alert EXCEPT ![k] = Row("acknowledged", Later(bulk.now, Suppress))]
         /\ Row("acknowledged", Later(bulk.now, Suppress)) \in Rows
         /\ PersonWrites(k) /\ bulk' \in [todo : SUBSET Problems, now : 0..Horizon]
<1>1. Row("acknowledged", Later(bulk.now, Suppress)) \in Rows
  BY LaterType, RowType, AlertsAssumption DEF TypeInv
<1>2. bulk' \in [todo : SUBSET Problems, now : 0..Horizon]
  BY AlertsAssumption DEF TypeInv, BulkAck, NoBulk
<1> QED
  BY <1>1, <1>2 DEF BulkAck, PersonWrites

LEMMA PersonType ==
  ASSUME TypeInv, NEW k \in Problems, PersonWrites(k),
         bulk' \in [todo : SUBSET Problems, now : 0..Horizon]
  PROVE  TypeInv'
<1>1. PICK row \in Rows : alert' = [alert EXCEPT ![k] = row]
  BY DEF PersonWrites
<1>2. RowsStay
  BY <1>1, RowWritten DEF TypeInv
<1> QED
  BY <1>2, AlertsOnly DEF PersonWrites

\* The type invariant is inductive.
LEMMA TypeStep ==
  ASSUME TypeInv, [Next]_vars
  PROVE  TypeInv'
<1> USE DEF world, notes
<1>1. CASE Advance
  <2>1. now \in Nat /\ now' = now + 1 /\ now' \in 0..Horizon
    BY <1>1, AlertsAssumption DEF Advance, TypeInv
  <2>2. ASSUME NEW d \in Passes
        PROVE  pass[d].now <= now'
    <3>1. pass[d] \in PassRecords /\ pass[d].now <= now
      BY DEF TypeInv
    <3>2. pass[d].now \in Nat
      BY <3>1 DEF PassRecords
    <3> QED
      BY <2>1, <3>1, <3>2
  <2> QED
    BY <1>1, <2>1, <2>2 DEF Advance, TypeInv
<1>2. ASSUME NEW k \in Problems, Arise(k) \/ Settle(k)
      PROVE  TypeInv'
  BY <1>2 DEF Arise, Settle, TypeInv
<1>3. ASSUME NEW d \in Passes, PassStep(d) \/ Trouble(d)
      PROVE  TypeInv'
  BY <1>3, PassStepType, TroubleType
<1>4. CASE People
  <2>1. CASE BulkBegin
    BY <2>1 DEF BulkBegin, TypeInv
  <2>2. ASSUME NEW k \in Problems, Ack(k) \/ SnoozeAlert(k) \/ BulkAck(k)
        PROVE  TypeInv'
    <3>1. bulk \in [todo : SUBSET Problems, now : 0..Horizon]
      BY DEF TypeInv
    <3> QED
      BY <2>2, <3>1, AckWrites, SnoozeWrites, BulkWrites, PersonType
  <2> QED
    BY <1>4, <2>1, <2>2 DEF People
<1>5. CASE UNCHANGED vars
  BY <1>5 DEF vars, TypeInv
<1> QED
  BY <1>1, <1>2, <1>3, <1>4, <1>5 DEF Next

\* Rows, passes and bulk acknowledgments stay well-typed; no pass is ahead of
\* the clock, and a row that one has read is never gone (alerts.ts:84-139).
THEOREM Typing == Spec => []TypeInv
<1>1. TypeInv /\ [Next]_vars => TypeInv'
  BY TypeStep
<1> QED
  BY <1>1, TypeInit, PTL DEF Spec
-----------------------------------------------------------------------------
(***************************************************************************)
(* A note is not repeated.  What a pass read may be behind the row, but    *)
(* with one pass only people write in between, and they never activate a   *)
(* row; so a pass that flips a row it read as acknowledged finds it        *)
(* acknowledged, and the note it owes is a new one.                        *)
(***************************************************************************)

NoteOwed ==
  \A d \in Passes :
    /\ pass[d].at = "write" /\ pass[d].seen # None /\ pass[d].seen.status = "acknowledged"
         => alert[pass[d].key].status = "acknowledged"
    /\ pass[d].at = "notify" => pass[d].key \notin noted \cup missed

NoteInv == TypeInv /\ (Cardinality(Passes) = 1 => NoteOwed)

LEMMA OnePass ==
  ASSUME Cardinality(Passes) = 1
  PROVE  \E d : Passes = {d}
BY FS_Singleton, AlertsAssumption

\* The steps of the one pass.
LEMMA NotePassStep ==
  ASSUME TypeInv, NoteOwed, NEW d, Passes = {d}, PassStep(d) \/ Trouble(d)
  PROVE  NoteOwed'
<1> USE DEF world, notes
<1> SUFFICES /\ /\ pass'[d].at = "write" /\ pass'[d].seen # None
                /\ pass'[d].seen.status = "acknowledged"
                => alert'[pass'[d].key].status = "acknowledged"
             /\ pass'[d].at = "notify" => pass'[d].key \notin noted' \cup missed'
  BY DEF NoteOwed
<1>1. pass[d] \in PassRecords
  BY DEF TypeInv
<1>2. CASE \/ PassBegin(d) \/ PassEnd(d) \/ Deliver(d) \/ DeliveryFails(d) \/ Muted(d) \/ Abort(d)
  <2>1. CASE PassBegin(d)
    BY <2>1 DEF PassBegin, TypeInv, NoPass
  <2>2. CASE PassEnd(d) \/ Abort(d)
    BY <2>2 DEF PassEnd, Abort, TypeInv, NoPass
  <2>3. CASE Deliver(d) \/ DeliveryFails(d) \/ Muted(d)
    <3>1. pass'[d].at = "scan"
      BY <1>1, <2>3 DEF Deliver, DeliveryFails, Muted, Told, TypeInv, PassRecords
    <3> QED
      BY <3>1
  <2> QED
    BY <1>2, <2>1, <2>2, <2>3
<1>3. CASE Create(d)
  <2> DEFINE k == pass[d].key  row == CreatedRow(d)
  <2>1. CASE alert[k] = None
    <3>1. k \in Problems /\ row.status = "active"
      BY <1>1, <1>3, LaterType, RowType, AlertsAssumption
         DEF Create, TypeInv, Looking, CreatedRow, PassRecords
    <3>2. Put(k, row) /\ Proceed(d, k, TRUE)
      BY <1>3, <2>1 DEF Create, CreatedRow
    <3>3. k \notin noted' \cup missed'
      BY <2>1, <3>1, <3>2 DEF Put
    <3>4. pass'[d].at \in {"notify", "scan"} /\ (pass'[d].at = "notify" => pass'[d].key = k)
      BY <1>1, <3>2 DEF Proceed, TypeInv, PassRecords
    <3> QED
      BY <3>3, <3>4
  <2>2. CASE alert[k] # None
    <3>1. pass'[d] = NoPass
      BY <1>3, <2>2 DEF Create, TypeInv
    <3> QED
      BY <3>1 DEF NoPass
  <2> QED
    BY <2>1, <2>2
<1>4. CASE Update(d)
  <2> DEFINE k == pass[d].key
             flip == Reactivate(pass[d].seen, pass[d].now)
  <2>1. /\ k \in Problems /\ pass[d].seen \in Rows /\ alert[k] \in Rows
        /\ pass[d].at = "write" /\ pass[d].seen # None
    BY <1>1, <1>4 DEF Update, TypeInv, PassRecords, Looking
  <2>2. Put(k, UpdatedRow(d)) /\ Proceed(d, k, flip)
    BY <1>4 DEF Update, UpdatedRow
  <2>3. CASE flip
    <3>1. alert[k].status = "acknowledged" /\ alert[k].status # "active"
      BY <2>1, <2>3 DEF NoteOwed, Reactivate
    <3>2. UpdatedRow(d).status = "active"
      BY <2>1, <2>3, RowType DEF UpdatedRow, Rows
    <3>3. k \notin noted' \cup missed'
      BY <2>2, <3>1, <3>2 DEF Put
    <3>4. pass'[d].at \in {"notify", "scan"} /\ (pass'[d].at = "notify" => pass'[d].key = k)
      BY <1>1, <2>2 DEF Proceed, TypeInv, PassRecords
    <3> QED
      BY <3>3, <3>4
  <2>4. CASE ~flip
    <3>1. pass'[d].at = "scan"
      BY <1>1, <2>2, <2>4 DEF Proceed, TypeInv, PassRecords
    <3> QED
      BY <3>1
  <2> QED
    BY <2>3, <2>4
<1>5. ASSUME NEW k \in Problems, Look(d, k)
      PROVE  /\ /\ pass'[d].at = "write" /\ pass'[d].seen # None
                /\ pass'[d].seen.status = "acknowledged"
                => alert'[pass'[d].key].status = "acknowledged"
             /\ pass'[d].at = "notify" => pass'[d].key \notin noted' \cup missed'
  <2>1. alert' = alert /\ pass[d].at = "scan"
    BY <1>5 DEF Look
  <2>2. CASE k \in open
    <3>1. pass'[d] = [pass[d] EXCEPT !.todo = @ \ {k}, !.at = "write",
                                     !.key = k, !.seen = alert[k]]
      BY <1>5, <2>2 DEF Look, TypeInv
    <3>2. pass'[d].at = "write" /\ pass'[d].key = k /\ pass'[d].seen = alert[k]
      BY <1>1, <3>1 DEF PassRecords
    <3> QED
      BY <2>1, <3>2
  <2>3. CASE k \notin open
    <3>1. pass'[d].at = "scan"
      BY <1>1, <1>5, <2>1, <2>3 DEF Look, TypeInv, PassRecords
    <3> QED
      BY <3>1
  <2> QED
    BY <2>2, <2>3
<1> QED
  BY <1>2, <1>3, <1>4, <1>5 DEF PassStep, Trouble

\* What people do to a row leaves it acknowledged where it was.
LEMMA NotePersonStep ==
  ASSUME TypeInv, NoteOwed, NEW k \in Problems, Ack(k) \/ SnoozeAlert(k) \/ BulkAck(k)
  PROVE  NoteOwed'
<1>1. PICK row \in Rows : /\ alert' = [alert EXCEPT ![k] = row]
                          /\ alert[k] \in Rows /\ alert[k].status = "acknowledged"
                               => row.status = "acknowledged"
  <2>1. CASE Ack(k)
    BY <2>1, AckWrites DEF Row
  <2>2. CASE BulkAck(k)
    BY <2>2, BulkWrites DEF Row
  <2>3. CASE SnoozeAlert(k)
    <3>1. Later(now, Snooze) \in 0..Horizon
      BY LaterType, AlertsAssumption DEF TypeInv
    <3>2. /\ alert[k] \in Rows
          /\ alert' = [alert EXCEPT ![k] = Row(alert[k].status, Later(now, Snooze))]
      BY <2>3, SnoozeWrites
    <3>3. /\ Row(alert[k].status, Later(now, Snooze)) \in Rows
          /\ Row(alert[k].status, Later(now, Snooze)).status = alert[k].status
      BY <3>1, <3>2, RowType DEF Rows
    <3> QED
      BY <3>2, <3>3
  <2> QED
    BY <2>1, <2>2, <2>3
<1>2. pass' = pass /\ noted' = noted /\ missed' = missed
  BY DEF Ack, SnoozeAlert, BulkAck, notes
<1>3. ASSUME NEW d \in Passes, pass[d].at = "write", pass[d].seen # None,
             pass[d].seen.status = "acknowledged"
      PROVE  alert'[pass[d].key].status = "acknowledged"
  <2>1. /\ pass[d].key \in Problems /\ alert[pass[d].key] \in Rows
        /\ alert[pass[d].key].status = "acknowledged"
    BY <1>3 DEF TypeInv, Looking, NoteOwed
  <2> QED
    BY <1>1, <2>1 DEF TypeInv
<1> QED
  BY <1>2, <1>3 DEF NoteOwed

LEMMA NoteInit == Init => NoteInv
BY TypeInit DEF Init, NoteInv, NoteOwed, NoPass

LEMMA NoteStep ==
  ASSUME NoteInv, [Next]_vars
  PROVE  NoteInv'
<1> USE DEF world, notes
<1>1. TypeInv /\ TypeInv'
  BY TypeStep DEF NoteInv
<1>2. ASSUME Cardinality(Passes) = 1
      PROVE  NoteOwed'
  <2>1. PICK d : Passes = {d}
    BY <1>2, OnePass
  <2>2. NoteOwed
    BY <1>2 DEF NoteInv
  <2>3. CASE Advance \/ BulkBegin \/ (\E k \in Problems : Arise(k) \/ Settle(k)) \/ UNCHANGED vars
    <3>1. UNCHANGED <<pass, alert, notes>>
      BY <2>3 DEF Advance, BulkBegin, Arise, Settle, vars
    <3> QED
      BY <2>2, <3>1 DEF NoteOwed
  <2>4. ASSUME NEW e \in Passes, PassStep(e) \/ Trouble(e)
        PROVE  NoteOwed'
    BY <1>1, <2>1, <2>2, <2>4, NotePassStep
  <2>5. ASSUME NEW k \in Problems, Ack(k) \/ SnoozeAlert(k) \/ BulkAck(k)
        PROVE  NoteOwed'
    BY <1>1, <2>2, <2>5, NotePersonStep
  <2> QED
    BY <2>3, <2>4, <2>5 DEF Next, People
<1> QED
  BY <1>1, <1>2 DEF NoteInv

\* With one detection pass at a time, a row is attempted to be told of once each
\* time it becomes active, and not again where that failed, was muted or never
\* came to be, however many problems there are and whatever people and failures
\* do in between (alerts.ts:86-91, detection.ts:205): no later pass re-emits it.
THEOREM NotesAreNotRepeated == Spec => []OneNotePerActivation
<1>1. NoteInv /\ [Next]_vars => NoteInv'
  BY NoteStep
<1>2. NoteInv => OneNotePerActivation
  BY DEF NoteInv, NoteOwed, OneNotePerActivation
<1> QED
  BY <1>1, <1>2, NoteInit, PTL DEF Spec
-----------------------------------------------------------------------------
(* What takes an acknowledgment back.                                      *)

\* One step: the row can only be flipped by an update, and an update flips a
\* suppressed row only if what it read was not that row.
LEMMA AckStep ==
  ASSUME TypeInv, [Next]_vars, NEW k \in Problems,
         Acked(k), Suppressed(k), alert'[k].status = "active"
  PROVE  \E d \in Passes : /\ pass[d].at = "write" /\ pass[d].key = k
                           /\ pass[d].seen # alert[k]
<1> USE DEF world, notes
<1>1. alert[k] \in Rows /\ alert[k].status = "acknowledged" /\ alert[k].until > now
  BY DEF TypeInv, Acked, Suppressed
<1>2. alert'[k] # alert[k]
  BY <1>1
<1>3. ASSUME NEW p \in Problems, Ack(p) \/ SnoozeAlert(p) \/ BulkAck(p)
      PROVE  FALSE
  <2>1. PICK row \in Rows : /\ alert' = [alert EXCEPT ![p] = row]
                            /\ alert[p] \in Rows /\ alert[p].status = "acknowledged"
                                 => row.status = "acknowledged"
    <3>1. CASE Ack(p)
      BY <3>1, AckWrites DEF Row
    <3>2. CASE BulkAck(p)
      BY <3>2, BulkWrites DEF Row
    <3>3. CASE SnoozeAlert(p)
      <4>1. Later(now, Snooze) \in 0..Horizon
        BY LaterType, AlertsAssumption DEF TypeInv
      <4> QED
        BY <3>3, <4>1, SnoozeWrites, RowType DEF Rows
    <3> QED
      BY <1>3, <3>1, <3>2, <3>3
  <2> QED
    BY <1>1, <2>1 DEF TypeInv
<1>4. ASSUME NEW d \in Passes, Create(d)
      PROVE  FALSE
  <2>1. alert[pass[d].key] = None /\ pass[d].key = k
    BY <1>2, <1>4 DEF Create, Put, TypeInv, Looking
  <2> QED
    BY <1>1, <2>1 DEF Acked
<1>5. ASSUME NEW d \in Passes, Update(d)
      PROVE  /\ pass[d].at = "write" /\ pass[d].key = k
             /\ pass[d].seen # alert[k]
  <2>1. /\ pass[d] \in PassRecords /\ pass[d].key \in Problems
        /\ pass[d].at = "write" /\ pass[d].seen \in Rows /\ pass[d].now <= now
    BY <1>5 DEF Update, TypeInv, Looking, PassRecords
  <2>2. alert' = [alert EXCEPT ![pass[d].key] = UpdatedRow(d)]
    BY <1>5 DEF Update, Put, UpdatedRow
  <2>3. pass[d].key = k
    BY <1>2, <2>1, <2>2 DEF TypeInv
  <2>4. UpdatedRow(d).status = "active"
    BY <2>2, <2>3 DEF TypeInv
  <2>5. CASE Reactivate(pass[d].seen, pass[d].now)
    <3>1. pass[d].seen.until <= pass[d].now /\ pass[d].seen.until \in Nat
      BY <2>1, <2>5 DEF Reactivate, Rows
    <3>2. pass[d].now \in Nat /\ now \in Nat /\ alert[k].until \in Nat
      BY <1>1, <2>1 DEF PassRecords, TypeInv, Rows
    <3>3. pass[d].seen.until < alert[k].until
      BY <1>1, <2>1, <3>1, <3>2
    <3> QED
      BY <2>1, <2>3, <3>2, <3>3
  <2>6. CASE ~Reactivate(pass[d].seen, pass[d].now)
    <3>1. pass[d].seen.status = "active"
      BY <2>4, <2>6 DEF UpdatedRow, Row
    <3> QED
      BY <1>1, <2>1, <2>3, <3>1
  <2> QED
    BY <2>1, <2>3, <2>5, <2>6
<1>6. CASE \/ Advance \/ BulkBegin \/ (\E p \in Problems : Arise(p) \/ Settle(p))
           \/ (\E d \in Passes : \/ PassBegin(d) \/ PassEnd(d) \/ Deliver(d) \/ Trouble(d)
                                 \/ \E p \in Problems : Look(d, p))
           \/ UNCHANGED vars
  <2>1. ASSUME NEW d \in Passes,
               \/ PassBegin(d) \/ PassEnd(d) \/ Deliver(d) \/ Trouble(d)
               \/ \E p \in Problems : Look(d, p)
        PROVE  UNCHANGED alert
    <3>1. CASE Trouble(d)
      BY <3>1 DEF Trouble, DeliveryFails, Muted, Abort
    <3>2. CASE PassBegin(d) \/ PassEnd(d) \/ Deliver(d)
      BY <3>2 DEF PassBegin, PassEnd, Deliver
    <3>3. CASE \E p \in Problems : Look(d, p)
      BY <3>3 DEF Look
    <3> QED
      BY <2>1, <3>1, <3>2, <3>3
  <2>2. CASE Advance \/ BulkBegin \/ (\E p \in Problems : Arise(p) \/ Settle(p)) \/ UNCHANGED vars
    BY <1>2, <2>2 DEF Advance, BulkBegin, Arise, Settle, vars
  <2> QED
    BY <1>2, <1>6, <2>1, <2>2
<1> QED
  BY <1>3, <1>4, <1>5, <1>6 DEF Next, People, PassStep

\* Whatever number of passes run at once, an alert that is acknowledged and
\* suppressed goes back to active only by the write of a pass that had read its
\* row before (alerts.ts:106-122).
THEOREM AckIsKept == Spec => AckYieldsOnlyToStaleRead
<1>1. TypeInv /\ [Next]_vars =>
        [\A k \in Problems :
           Acked(k) /\ Suppressed(k) /\ alert'[k].status = "active" =>
             \E d \in Passes : /\ pass[d].at = "write" /\ pass[d].key = k
                               /\ pass[d].seen # alert[k]]_vars
  BY AckStep
<1> QED
  BY <1>1, Typing, PTL DEF Spec, AckYieldsOnlyToStaleRead
====
