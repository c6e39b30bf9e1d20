----------------------------- MODULE Schedules -----------------------------
(***************************************************************************)
(* The two jobs that keep themselves going: the detection pass and a       *)
(* tenant's daily digest (apps/api/src/jobs/handlers/detection.ts,         *)
(* email-digest.ts, wired in apps/api/src/index.ts), on the job queue of   *)
(* JobQueue.                                                               *)
(*                                                                         *)
(* A schedule is a chain of rows: every boot begins one, and each run of   *)
(* a row enqueues the next.  Detection does so in a finally, whatever the  *)
(* pass did; the digest only at the end of a run that found its setting    *)
(* on.  Nothing ties the rows of a chain together but that.  The setting   *)
(* may change at any time: each read of it finds it on or off.             *)
(***************************************************************************)
EXTENDS JobQueue

CONSTANTS
  Interval,  \* DETECTION_INTERVAL_MS, msUntilDigestHour: the next run's delay
  First      \* the delay of the rows a boot enqueues

ASSUME SchedulesAssumption == Workers # {} /\ Interval \in Nat /\ First \in Nat

VARIABLES
  kind,     \* Job.name of a row, once it exists
  step,     \* per process: where the handler it runs stands
  owes,     \* per process: the chains its boot has yet to begin
  begun     \* history: chains begun by boots, per kind

chainVars == <<kind, step, owes, begun>>
allVars   == <<vars, chainVars>>

Kinds == {"detection", "digest"}

SInit == /\ Init
         /\ kind = [j \in Jobs |-> "none"]
         /\ step = [w \in Workers |-> "body"]
         /\ owes = [w \in Workers |-> Kinds]
         /\ begun = [k \in Kinds |-> 0]

\* jobs.enqueue of one more row of kind k; a new id of Jobs is the bound.
Add(j, k, delay) == Enqueue(j, delay) /\ kind' = [kind EXCEPT ![j] = k]
-----------------------------------------------------------------------------
(* What a boot begins, whatever rows an earlier process has left.          *)

\* bootstrapDetectionSchedule, and bootstrapEmailDigestSchedules for a tenant
\* whose setting is on.  Neither is awaited by the boot.
Bootstrap(w, k, j) ==
  /\ mode[w] # "down" /\ k \in owes[w]
  /\ Add(j, k, First)
  /\ owes' = [owes EXCEPT ![w] = @ \ {k}]
  /\ begun' = [begun EXCEPT ![k] = @ + 1]
  /\ UNCHANGED <<step>>

BootstrapSkips(w) ==
  /\ mode[w] # "down" /\ "digest" \in owes[w]
  /\ owes' = [owes EXCEPT ![w] = @ \ {"digest"}]
  /\ UNCHANGED <<vars, kind, step, begun>>

\* The enqueue rejects: a warning, "non-fatal".
BootstrapErrs(w, k) ==
  /\ mode[w] # "down" /\ k \in owes[w]
  /\ Fault
  /\ owes' = [owes EXCEPT ![w] = @ \ {k}]
  /\ UNCHANGED <<rowVars, clock, mode, tickVars, history,
                 kind, step, begun>>
-----------------------------------------------------------------------------
(* The handler of the row that process w runs.                             *)

Handles(w, k) == phase[w] = "handling" /\ kind[cand[w]] = k

At(w, from, to) == step[w] = from /\ step' = [step EXCEPT ![w] = to]

\* Slip: the next pass is enqueued after the pass, not in a finally.
DetectThenSchedule(w) ==
  /\ Handles(w, "detection")
  /\ At(w, "body", "next") \/ At(w, "body", "throw")
  /\ UNCHANGED <<vars, kind, owes, begun>>

\* The pass over the tenants ends or throws; the finally follows either way.
Detect(w) ==
  /\ Handles(w, "detection")
  /\ At(w, "body", "next") \/ At(w, "body", "rethrow")
  /\ UNCHANGED <<vars, kind, owes, begun>>

\* The digest returns at once when the setting is off; else it counts, records
\* its summary and goes on to the next, or throws.
Digest(w) ==
  /\ Handles(w, "digest")
  /\ \/ At(w, "body", "return")
     \/ At(w, "body", "next")
     \/ At(w, "body", "throw")
  /\ UNCHANGED <<vars, kind, owes, begun>>

\* scheduleNext resolves.  After a pass that threw, the error goes on and the
\* row is tried again although its successor exists.
ScheduleNext(w, j) ==
  /\ phase[w] = "handling"
  /\ At(w, "next", "return") \/ At(w, "rethrow", "throw")
  /\ Add(j, kind[cand[w]], Interval)
  /\ UNCHANGED <<owes, begun>>

\* scheduleNext rejects, before or after the row was written: the handler throws.
ScheduleErrs(w) ==
  /\ phase[w] = "handling"
  /\ At(w, "next", "throw") \/ At(w, "rethrow", "throw")
  /\ Fault
  /\ \/ UNCHANGED <<rowVars, kind>>
     \/ \E j \in Jobs :
          /\ status[j] = "absent"
          /\ status' = [status EXCEPT ![j] = "pending"]
          /\ runAfter' = [runAfter EXCEPT ![j] = Due(clock + Interval)]
          /\ kind' = [kind EXCEPT ![j] = kind[cand[w]]]
          /\ UNCHANGED attempts
  /\ UNCHANGED <<clock, mode, tickVars, history, owes, begun>>

HandlerEnds(w) ==
  /\ \/ step[w] = "return" /\ HandlerResolves(w)
     \/ step[w] = "throw" /\ HandlerFails(w)
  /\ step' = [step EXCEPT ![w] = "body"]
  /\ UNCHANGED <<kind, owes, begun>>

-----------------------------------------------------------------------------
\* The queue's own steps.  A process that goes down forgets its handler; one
\* that boots owes both bootstraps again.
QueueStep(w) ==
  \/ /\ \/ TickBegin(w) \/ Find(w) \/ Claim(w) \/ Dispatch(w)
        \/ FinishDone(w) \/ FinishFailed(w)
        \/ ClaimErrs(w) \/ DoneErrs(w) \/ FailedErrs(w)
        \/ Shutdown(w) \/ ShutdownReturns(w)
     /\ UNCHANGED chainVars
  \/ /\ Crash(w) \/ Exit(w)
     /\ step' = [step EXCEPT ![w] = "body"]
     /\ owes' = [owes EXCEPT ![w] = {}]
     /\ UNCHANGED <<kind, begun>>
  \/ /\ Boot(w)
     /\ owes' = [owes EXCEPT ![w] = Kinds]
     /\ UNCHANGED <<kind, step, begun>>

\* The clock stands still: with Horizon = 0 every row is due at once, so a run
\* may come at any time after its row was enqueued.
SNext ==
  \E w \in Workers :
    \/ QueueStep(w)
    \/ Detect(w) \/ Digest(w) \/ HandlerEnds(w) \/ ScheduleErrs(w)
    \/ BootstrapSkips(w)
    \/ \E j \in Jobs : ScheduleNext(w, j)
    \/ \E k \in Kinds : BootstrapErrs(w, k) \/ \E j \in Jobs : Bootstrap(w, k, j)

SSpec == SInit /\ [][SNext]_allVars
-----------------------------------------------------------------------------
Pending(k) == {j \in Jobs : kind[j] = k /\ status[j] = "pending"}
Underway(k) == \E w \in Workers : phase[w] # "idle" /\ cand[w] # None /\ kind[cand[w]] = k
Begun(k)   == \A w \in Workers : mode[w] = "polling" /\ k \notin owes[w]

\* The chains go on, and apart.  Passes that throw, processes that crash or are
\* stopped and rows that are buried never leave a running hub without a row for
\* the next detection pass, as long as every enqueue was answered (the finally at
\* detection.ts:157, the bootstrap at index.ts:100).  And a chain of either kind
\* is begun by a boot alone: until a run fails there are never more rows waiting
\* than boots that enqueued one (detection.ts:151-163, email-digest.ts:71,
\* index.ts:100-113).
ChainsGoOn ==
  faults = 0 =>
    /\ Begun("detection") => Pending("detection") # {} \/ Underway("detection")
    /\ (\A j \in Jobs : attempts[j] = 0) =>
         \A k \in Kinds : Cardinality(Pending(k)) <= begun[k]
=============================================================================
