------------------------------ MODULE JobQueue ------------------------------
(***************************************************************************)
(* The database job queue of the API (apps/api/src/jobs/db-adapter.ts) and *)
(* the processes that poll it (started and closed by                       *)
(* apps/api/src/index.ts).                                                 *)
(*                                                                         *)
(* A row of the Job table has a status, the number of failed attempts and  *)
(* the time from which it is due.  Every API process runs one poller.  A   *)
(* tick is a chain of awaited database calls (findFirst, updateMany, the   *)
(* handler, the update that records the outcome), and anything may happen  *)
(* between two of them: another process's tick, shutdown(), a crash.       *)
(* Each awaited call is therefore an action of its own.                    *)
(*                                                                         *)
(* What is abstract: a job's name and payload are kept only as far as      *)
(* "the process can dispatch it" (Runnable); the text of the error column  *)
(* and the log lines are left out; milliseconds are clock units.           *)
(***************************************************************************)
EXTENDS Naturals, FiniteSets

CONSTANTS
  Jobs,         \* identities of the rows that may be enqueued
  Runnable,     \* rows whose name has a handler and whose payload is JSON
  Workers,      \* API processes, each with its own DbJobAdapter
  None,         \* "no row"
  MaxAttempts,  \* MAX_ATTEMPTS
  RetryDelay,   \* RETRY_DELAYS_MS, by number of failed attempts
  EnqueueDelay, \* the delays a producer may ask for
  Horizon,      \* bound: the clock and every due time stop here
  MaxCrashes,   \* bound: process crashes
  MaxFaults,    \* bound: database calls that fail
  MaxStops      \* bound: shutdown() calls

ASSUME JobQueueAssumption ==
  /\ Runnable \subseteq Jobs
  /\ None \notin Jobs
  /\ MaxAttempts \in Nat \ {0}
  /\ RetryDelay \in [1..MaxAttempts -> Nat]
  /\ EnqueueDelay \subseteq Nat
  /\ Horizon \in Nat
  /\ MaxCrashes \in Nat /\ MaxFaults \in Nat /\ MaxStops \in Nat

VARIABLES
  status,       \* Job.status; "absent" before the row exists
  attempts,     \* Job.attempts
  runAfter,     \* Job.runAfter
  clock,        \* this.now(), the same for every process
  mode,         \* of each process: is it up, is it polling, is it stopping
  phase,        \* where its current tick stands ("idle": this.polling = false)
  cand,         \* the row its current tick is about
  seen,         \* the attempts it read from that row (ClaimedJob.attempts)
  runs,         \* history: attempts begun for each row
  wins,         \* history: attempts whose handler resolved
  crashes, faults, stops   \* counters of the bounded events

rowVars  == <<status, attempts, runAfter>>
tickVars == <<phase, cand, seen>>
history  == <<runs, wins>>
bounds   == <<crashes, faults, stops>>
vars     == <<rowVars, clock, mode, tickVars, history, bounds>>

Statuses == {"absent", "pending", "running", "done", "dead"}
Modes    == {"down", "polling", "awaiting", "stopped"}
Phases   == {"idle", "find", "claim", "claimed",
             "handling", "succeeded", "failed"}

\* Phases in which this.inFlight is set: runJob has been called.
InFlight == {"handling", "succeeded", "failed"}

\* A due time, cut off at the horizon: beyond it rows are due at once.
Due(t) == IF t > Horizon THEN Horizon ELSE t

\* The rows findFirst may return: pending, due, and oldest by runAfter.
Candidates ==
  LET due == {j \in Jobs : status[j] = "pending" /\ runAfter[j] <= clock}
  IN  {j \in due : \A k \in due : runAfter[j] <= runAfter[k]}

Idle(w) == /\ phase' = [phase EXCEPT ![w] = "idle"]
           /\ cand'  = [cand EXCEPT ![w] = None]
           /\ seen'  = [seen EXCEPT ![w] = 0]

Goto(w, from, to) == /\ phase[w] = from
                     /\ phase' = [phase EXCEPT ![w] = to]
                     /\ UNCHANGED <<cand, seen>>

\* An awaited database call that rejects; whether it was applied is separate.
Fault == /\ faults < MaxFaults
         /\ faults' = faults + 1
         /\ UNCHANGED <<crashes, stops>>
-----------------------------------------------------------------------------
Init == /\ status = [j \in Jobs |-> "absent"]
        /\ attempts = [j \in Jobs |-> 0]
        /\ runAfter = [j \in Jobs |-> 0]
        /\ clock = 0
        /\ mode = [w \in Workers |-> "polling"]
        /\ phase = [w \in Workers |-> "idle"]
        /\ cand = [w \in Workers |-> None]
        /\ seen = [w \in Workers |-> 0]
        /\ runs = [j \in Jobs |-> 0]
        /\ wins = [j \in Jobs |-> 0]
        /\ crashes = 0 /\ faults = 0 /\ stops = 0

\* enqueue(): job.create with the schema's defaults.
Enqueue(j, delay) ==
  /\ status[j] = "absent"
  /\ status' = [status EXCEPT ![j] = "pending"]
  /\ runAfter' = [runAfter EXCEPT ![j] = Due(clock + delay)]
  /\ UNCHANGED <<attempts, clock, mode, tickVars, history, bounds>>

\* Time passes for every process.
Advance == /\ clock < Horizon
           /\ clock' = clock + 1
           /\ UNCHANGED <<rowVars, mode, tickVars, history, bounds>>

\* The interval fires: tick() enters unless one is running or a stop was asked.
TickBegin(w) == /\ mode[w] = "polling"
                /\ Goto(w, "idle", "find")
                /\ UNCHANGED <<rowVars, clock, mode, history, bounds>>

\* findFirst answers with the oldest due row, or with none and the tick ends.
Find(w) ==
  /\ phase[w] = "find"
  /\ \/ /\ Candidates = {}
        /\ Idle(w)
     \/ \E j \in Candidates :
          /\ phase' = [phase EXCEPT ![w] = "claim"]
          /\ cand'  = [cand EXCEPT ![w] = j]
          /\ seen'  = [seen EXCEPT ![w] = attempts[j]]
  /\ UNCHANGED <<rowVars, clock, mode, history, bounds>>

\* Slip: the claim is an update by id alone, without status = 'pending'.
ClaimUnguarded(w) ==
  /\ status' = [status EXCEPT ![cand[w]] = "running"]
  /\ Goto(w, "claim", "claimed")
  /\ UNCHANGED <<attempts, runAfter, clock, mode, history, bounds>>

\* updateMany where id and status = 'pending': win the row, or walk away.
Claim(w) ==
  /\ phase[w] = "claim"
  /\ LET j == cand[w] IN
       \/ /\ status[j] # "pending"
          /\ Idle(w)
          /\ UNCHANGED status
       \/ /\ status[j] = "pending"
          /\ status' = [status EXCEPT ![j] = "running"]
          /\ Goto(w, "claim", "claimed")
  /\ UNCHANGED <<attempts, runAfter, clock, mode, history, bounds>>

\* The claim's answer arrives: runJob starts and this.inFlight is set.
Dispatch(w) ==
  /\ Goto(w, "claimed", "handling")
  /\ runs' = [runs EXCEPT ![cand[w]] = @ + 1]
  /\ UNCHANGED <<rowVars, clock, mode, wins, bounds>>

\* The handler resolves.
HandlerResolves(w) ==
  /\ cand[w] \in Runnable
  /\ Goto(w, "handling", "succeeded")
  /\ wins' = [wins EXCEPT ![cand[w]] = @ + 1]
  /\ UNCHANGED <<rowVars, clock, mode, runs, bounds>>

\* The handler throws, or there is no handler, or the payload is not JSON.
HandlerFails(w) ==
  /\ Goto(w, "handling", "failed")
  /\ UNCHANGED <<rowVars, clock, mode, history, bounds>>

\* The row update that records a success.
RecordDone(j) == /\ status' = [status EXCEPT ![j] = "done"]
                 /\ UNCHANGED <<attempts, runAfter>>

MarkFailedUpTo(j, n, last) ==
  /\ attempts' = [attempts EXCEPT ![j] = n]
  /\ status' = [status EXCEPT ![j] = IF n >= last THEN "dead" ELSE "pending"]
  /\ UNCHANGED runAfter

MarkFailedEarly(j, n) == MarkFailedUpTo(j, n, MaxAttempts - 1)

MarkFailedUncounted(j, n) == /\ status' = [status EXCEPT ![j] = "pending"]
                             /\ UNCHANGED <<attempts, runAfter>>

\* markFailed: count the attempt read at the claim, then back off or bury.
MarkFailed(j, n) ==
  /\ attempts' = [attempts EXCEPT ![j] = n]
  /\ \/ /\ n >= MaxAttempts
        /\ status' = [status EXCEPT ![j] = "dead"]
        /\ UNCHANGED runAfter
     \/ /\ n < MaxAttempts
        /\ status' = [status EXCEPT ![j] = "pending"]
        /\ runAfter' = [runAfter EXCEPT ![j] = Due(clock + RetryDelay[n])]

FinishDone(w) == /\ phase[w] = "succeeded"
                 /\ RecordDone(cand[w])
                 /\ Idle(w)
                 /\ UNCHANGED <<clock, mode, history, bounds>>

\* Slip: tick() returns once it has logged the failure, without markFailed.
FinishFailedUnwritten(w) == /\ phase[w] = "failed"
                            /\ Idle(w)
                            /\ UNCHANGED <<rowVars, clock, mode, history, bounds>>

FinishFailed(w) == /\ phase[w] = "failed"
                   /\ MarkFailed(cand[w], seen[w] + 1)
                   /\ Idle(w)
                   /\ UNCHANGED <<clock, mode, history, bounds>>
-----------------------------------------------------------------------------
(* A database call that rejects.  The connection may drop before the call  *)
(* is applied or after it, so each failing write has both outcomes.        *)

\* findFirst or the claim rejects: tick() logs and the poller continues.
ClaimErrs(w) ==
  /\ Fault
  /\ phase[w] \in {"find", "claim"}
  /\ Idle(w)
  /\ \/ UNCHANGED status
     \/ /\ phase[w] = "claim"
        /\ status[cand[w]] = "pending"
        /\ status' = [status EXCEPT ![cand[w]] = "running"]
  /\ UNCHANGED <<attempts, runAfter, clock, mode, history>>

\* The 'done' update rejects inside runJob's try: the attempt counts as failed.
DoneErrs(w) ==
  /\ Fault
  /\ Goto(w, "succeeded", "failed")
  /\ \/ UNCHANGED rowVars
     \/ RecordDone(cand[w])
  /\ UNCHANGED <<clock, mode, history>>

\* markFailed's update rejects: tick() swallows it.
FailedErrs(w) ==
  /\ Fault
  /\ phase[w] = "failed"
  /\ \/ UNCHANGED rowVars
     \/ MarkFailed(cand[w], seen[w] + 1)
  /\ Idle(w)
  /\ UNCHANGED <<clock, mode, history>>
-----------------------------------------------------------------------------
(* The life of a process.                                                  *)

\* shutdown(): stop the interval; wait for this.inFlight only if it is set.
Shutdown(w) ==
  /\ mode[w] = "polling"
  /\ stops < MaxStops
  /\ stops' = stops + 1
  /\ mode' = [mode EXCEPT ![w] =
                IF phase[w] \in InFlight THEN "awaiting" ELSE "stopped"]
  /\ UNCHANGED <<rowVars, clock, tickVars, history, crashes, faults>>

\* The awaited job settles and shutdown() returns.
ShutdownReturns(w) ==
  /\ mode[w] = "awaiting"
  /\ phase[w] \notin InFlight
  /\ mode' = [mode EXCEPT ![w] = "stopped"]
  /\ UNCHANGED <<rowVars, clock, tickVars, history, bounds>>

\* The process is gone, and with it everything it held in memory.
Gone(w) == /\ mode' = [mode EXCEPT ![w] = "down"]
           /\ Idle(w)
           /\ UNCHANGED <<rowVars, clock, history>>

\* The rest of the API's close(): disconnect and process.exit(0).
Exit(w) == /\ mode[w] = "stopped"
           /\ Gone(w)
           /\ UNCHANGED bounds

Crash(w) == /\ mode[w] # "down"
            /\ crashes < MaxCrashes
            /\ crashes' = crashes + 1
            /\ Gone(w)
            /\ UNCHANGED <<faults, stops>>

\* The API boots again: a new adapter, register(), start().
Boot(w) == /\ mode[w] = "down"
           /\ mode' = [mode EXCEPT ![w] = "polling"]
           /\ UNCHANGED <<rowVars, clock, tickVars, history, bounds>>
-----------------------------------------------------------------------------
Tick(w) == \/ TickBegin(w) \/ Find(w) \/ Claim(w) \/ Dispatch(w)
           \/ HandlerResolves(w) \/ HandlerFails(w)
           \/ FinishDone(w) \/ FinishFailed(w)

Trouble(w) == \/ ClaimErrs(w) \/ DoneErrs(w) \/ FailedErrs(w) \/ Crash(w)

Life(w) == \/ Shutdown(w) \/ ShutdownReturns(w) \/ Exit(w) \/ Boot(w)

Next == \/ \E j \in Jobs, delay \in EnqueueDelay : Enqueue(j, delay)
        \/ Advance
        \/ \E w \in Workers : Tick(w) \/ Trouble(w) \/ Life(w)

Spec == Init /\ [][Next]_vars

\* The interval keeps firing, awaited calls and handlers settle, a stopped
\* process exits and is started again, and time goes on.  Nobody has to
\* enqueue, shut down or crash.
Fairness ==
  /\ WF_vars(Advance)
  /\ \A w \in Workers :
       /\ WF_vars(Tick(w))
       /\ WF_vars(ShutdownReturns(w) \/ Exit(w) \/ Boot(w))

FairSpec == Spec /\ Fairness
-----------------------------------------------------------------------------
TypeOK ==
  /\ status \in [Jobs -> Statuses]
  /\ attempts \in [Jobs -> Nat]
  /\ runAfter \in [Jobs -> Nat]
  /\ clock \in Nat
  /\ mode \in [Workers -> Modes]
  /\ phase \in [Workers -> Phases]
  /\ cand \in [Workers -> Jobs \cup {None}]
  /\ seen \in [Workers -> Nat]
  /\ runs \in [Jobs -> Nat]
  /\ wins \in [Jobs -> Nat]
  /\ crashes \in Nat /\ faults \in Nat /\ stops \in Nat

Owns(w, j) == phase[w] \in InFlight \cup {"claimed"} /\ cand[w] = j

\* No two processes ever hold the same row: the conditional update is the
\* lock that the comment at db-adapter.ts:11-18 says it is.
OneOwner == \A j \in Jobs, v, w \in Workers : Owns(v, j) /\ Owns(w, j) => v = w

\* However many processes poll and whatever fails, a row that is done had a
\* handler that resolved, and a row that is dead used up the whole budget
\* (runJob and markFailed, db-adapter.ts:246-275).
OutcomeEarned ==
  \A j \in Jobs : /\ status[j] = "done" => wins[j] > 0
                  /\ status[j] = "dead" => runs[j] >= MaxAttempts

Undisturbed == crashes + faults + stops = 0

\* Unless a crash, a failing call or a stop got in the way, every row is
\* settled: done, or dead after its retries (db-adapter.ts:171-290).
EverySettled == \A j \in Jobs :
  status[j] = "pending" ~> status[j] \in {"done", "dead"} \/ ~Undisturbed
-----------------------------------------------------------------------------
(* What one poller promises, abstractly: see JobLedger.  A row whose        *)
(* process is still busy with it is leased, whatever its status column says *)
(* (a lost reply to the 'done' update leaves it done and busy).             *)
Busy(j) == \E w \in Workers : Owns(w, j)

Ledger == INSTANCE JobLedger WITH
  state <- [j \in Jobs |-> IF Busy(j) THEN "leased" ELSE status[j]],
  held  <- [j \in Jobs |-> Busy(j)],
  tries <- attempts

\* One process implements the ledger: each attempt is leased once, settled
\* once and counted once, and the row is buried exactly at the last one.
ImplementsLedger == Ledger!Spec
=============================================================================
