--------------------------- MODULE JobQueueProofs ---------------------------
(***************************************************************************)
(* Theorems about JobQueue and about the Schedules that run on it, for any *)
(* number of rows and of processes and for every value of the bounds.      *)
(***************************************************************************)
EXTENDS Schedules, FiniteSetTheorems, TLAPS

LEMMA DueIsNat ==
  ASSUME NEW t \in Nat
  PROVE  Due(t) \in Nat
BY JobQueueAssumption DEF Due

\* markFailed keeps the columns well-typed: the back-off it looks up exists.
LEMMA MarkFailedTypes ==
  ASSUME TypeOK, NEW j, NEW n \in Nat \ {0}, MarkFailed(j, n)
  PROVE  /\ status' \in [Jobs -> Statuses]
         /\ attempts' \in [Jobs -> Nat]
         /\ runAfter' \in [Jobs -> Nat]
<1>1. attempts' \in [Jobs -> Nat]
  BY DEF TypeOK, MarkFailed
<1>2. CASE n >= MaxAttempts
  <2>1. ~(n < MaxAttempts)
    BY <1>2, JobQueueAssumption
  <2>2. status' = [status EXCEPT ![j] = "dead"] /\ runAfter' = runAfter
    BY <2>1 DEF MarkFailed
  <2> QED
    BY <1>1, <2>2 DEF TypeOK, Statuses
<1>3. CASE n < MaxAttempts
  <2>1. RetryDelay[n] \in Nat
    BY <1>3, JobQueueAssumption
  <2>2. Due(clock + RetryDelay[n]) \in Nat
    BY <2>1, DueIsNat DEF TypeOK
  <2>3. /\ status' = [status EXCEPT ![j] = "pending"]
        /\ runAfter' = [runAfter EXCEPT ![j] = Due(clock + RetryDelay[n])]
    BY <1>3, JobQueueAssumption DEF MarkFailed
  <2> QED
    BY <1>1, <2>2, <2>3 DEF TypeOK, Statuses
<1> QED
  BY <1>2, <1>3, JobQueueAssumption

LEMMA CountTypes ==
  ASSUME NEW f \in [Jobs -> Nat], NEW j
  PROVE  [f EXCEPT ![j] = @ + 1] \in [Jobs -> Nat]
<1>1. CASE j \in Jobs
  BY <1>1
<1>2. CASE j \notin Jobs
  <2>1. [f EXCEPT ![j] = @ + 1] = f
    BY <1>2
  <2> QED
    BY <2>1
<1> QED
  BY <1>1, <1>2

LEMMA TypeStep ==
  ASSUME TypeOK, [Next]_vars
  PROVE  TypeOK'
<1> USE DEF TypeOK, rowVars, tickVars, history, bounds
<1>1. ASSUME NEW j \in Jobs, NEW delay \in EnqueueDelay, Enqueue(j, delay)
      PROVE  TypeOK'
  <2>1. clock + delay \in Nat
    BY JobQueueAssumption
  <2>2. Due(clock + delay) \in Nat
    BY <2>1, DueIsNat
  <2> QED
    BY <1>1, <2>2 DEF Enqueue, Statuses
<1>2. CASE Advance
  BY <1>2 DEF Advance
<1>3. ASSUME NEW w \in Workers, Tick(w)
      PROVE  TypeOK'
  <2>1. CASE TickBegin(w)
    BY <2>1 DEF TickBegin, Goto, Phases
  <2>2. CASE Find(w)
    BY <2>2 DEF Find, Idle, Candidates, Phases
  <2>3. CASE Claim(w)
    <3>1. /\ UNCHANGED <<attempts, runAfter, clock, mode>>
          /\ UNCHANGED <<runs, wins, crashes, faults, stops>>
      BY <2>3 DEF Claim
    <3>2. CASE Idle(w) /\ UNCHANGED status
      BY <3>1, <3>2 DEF Idle, Phases
    <3>3. CASE /\ status' = [status EXCEPT ![cand[w]] = "running"]
               /\ Goto(w, "claim", "claimed")
      BY <3>1, <3>3 DEF Goto, Phases, Statuses
    <3> QED
      BY <2>3, <3>2, <3>3 DEF Claim
  <2>4. CASE Dispatch(w)
    <3>1. runs' \in [Jobs -> Nat]
      BY <2>4, CountTypes DEF Dispatch
    <3> QED
      BY <2>4, <3>1 DEF Dispatch, Goto, Phases
  <2>5. CASE HandlerResolves(w)
    <3>1. wins' \in [Jobs -> Nat]
      BY <2>5, CountTypes DEF HandlerResolves
    <3> QED
      BY <2>5, <3>1 DEF HandlerResolves, Goto, Phases
  <2>6. CASE HandlerFails(w)
    BY <2>6 DEF HandlerFails, Goto, Phases
  <2>7. CASE FinishDone(w)
    BY <2>7 DEF FinishDone, RecordDone, Idle, Phases, Statuses
  <2>8. CASE FinishFailed(w)
    <3>1. seen[w] + 1 \in Nat \ {0}
      OBVIOUS
    <3>2. /\ status' \in [Jobs -> Statuses]
          /\ attempts' \in [Jobs -> Nat]
          /\ runAfter' \in [Jobs -> Nat]
      BY <2>8, <3>1, MarkFailedTypes DEF FinishFailed
    <3> QED
      BY <2>8, <3>2 DEF FinishFailed, Idle, Phases
  <2> QED
    BY <1>3, <2>1, <2>2, <2>3, <2>4, <2>5, <2>6, <2>7, <2>8 DEF Tick
<1>4. ASSUME NEW w \in Workers, Trouble(w)
      PROVE  TypeOK'
  <2>1. CASE ClaimErrs(w)
    BY <2>1 DEF ClaimErrs, Fault, Idle, Phases, Statuses
  <2>2. CASE DoneErrs(w)
    BY <2>2 DEF DoneErrs, Fault, Goto, RecordDone, Phases, Statuses
  <2>3. CASE FailedErrs(w)
    <3>1. seen[w] + 1 \in Nat \ {0}
      OBVIOUS
    <3>2. /\ status' \in [Jobs -> Statuses]
          /\ attempts' \in [Jobs -> Nat]
          /\ runAfter' \in [Jobs -> Nat]
      BY <2>3, <3>1, MarkFailedTypes DEF FailedErrs
    <3> QED
      BY <2>3, <3>2 DEF FailedErrs, Fault, Idle, Phases
  <2>4. CASE Crash(w)
    BY <2>4 DEF Crash, Gone, Idle, Modes, Phases
  <2> QED
    BY <1>4, <2>1, <2>2, <2>3, <2>4 DEF Trouble
<1>5. ASSUME NEW w \in Workers, Life(w)
      PROVE  TypeOK'
  <2>1. CASE Shutdown(w)
    BY <2>1 DEF Shutdown, Modes
  <2>2. CASE ShutdownReturns(w)
    BY <2>2 DEF ShutdownReturns, Modes
  <2>3. CASE Exit(w)
    BY <2>3 DEF Exit, Gone, Idle, Modes, Phases
  <2>4. CASE Boot(w)
    BY <2>4 DEF Boot, Modes
  <2> QED
    BY <1>5, <2>1, <2>2, <2>3, <2>4 DEF Life
<1>6. CASE UNCHANGED vars
  BY <1>6 DEF vars
<1> QED
  BY <1>1, <1>2, <1>3, <1>4, <1>5, <1>6 DEF Next

LEMMA InitType == Init => TypeOK
BY DEF Init, TypeOK, Statuses, Modes, Phases

\* Every reachable state is well-typed, whatever the processes and the
\* database calls do (db-adapter.ts:171-290).
THEOREM Typing == Spec => []TypeOK
BY InitType, TypeStep, PTL DEF Spec
-----------------------------------------------------------------------------
(* The lock.  A row that somebody holds is neither waiting nor absent, so   *)
(* neither a producer nor another process's conditional update can take it. *)
HeldIsTaken == \A j \in Jobs, w \in Workers :
                 Owns(w, j) => status[j] \notin {"absent", "pending"}

LockInv == OneOwner /\ HeldIsTaken

\* A step in which no process begins to own a row, and no row becomes absent
\* or pending unless its owner lets go of it, keeps the lock.
LEMMA LockFrame ==
  ASSUME LockInv,
         \A j \in Jobs, w \in Workers : Owns(w, j)' => Owns(w, j),
         \A j \in Jobs : \/ status'[j] = status[j]
                         \/ status'[j] \notin {"absent", "pending"}
                         \/ \A w \in Workers : ~ Owns(w, j)'
  PROVE  LockInv'
BY DEF LockInv, OneOwner, HeldIsTaken

LEMMA LockStep ==
  ASSUME TypeOK, LockInv, [Next]_vars
  PROVE  LockInv'
<1> USE DEF TypeOK, rowVars, tickVars
<1>1. ASSUME NEW j \in Jobs, NEW delay \in EnqueueDelay, Enqueue(j, delay)
      PROVE  LockInv'
  <2>1. \A w \in Workers : ~ Owns(w, j)
    BY <1>1 DEF Enqueue, LockInv, HeldIsTaken
  <2>2. \A k \in Jobs, w \in Workers : Owns(w, k)' = Owns(w, k)
    BY <1>1 DEF Enqueue, Owns
  <2> QED
    BY <1>1, <2>1, <2>2, LockFrame DEF Enqueue
<1>2. ASSUME NEW w \in Workers, Claim(w)
      PROVE  LockInv'
  <2> DEFINE j == cand[w]
  <2>1. CASE status[j] # "pending"
    BY <1>2, <2>1, LockFrame DEF Claim, Idle, Goto, Owns, InFlight
  <2>2. CASE status[j] = "pending"
    <3>1. /\ status' = [status EXCEPT ![j] = "running"]
          /\ phase' = [phase EXCEPT ![w] = "claimed"]
          /\ cand' = cand
      BY <1>2, <2>2 DEF Claim, Goto
    <3>2. \A k \in Jobs, v \in Workers :
            Owns(v, k)' => Owns(v, k) \/ (v = w /\ k = j)
      BY <3>1 DEF Owns, InFlight
    <3>3. j \in Jobs => \A v \in Workers : ~ Owns(v, j)
      BY <2>2 DEF LockInv, HeldIsTaken
    <3>4. OneOwner'
      BY <3>2, <3>3 DEF LockInv, OneOwner
    <3>5. HeldIsTaken'
      BY <3>1, <3>2 DEF LockInv, HeldIsTaken
    <3> QED
      BY <3>4, <3>5 DEF LockInv
  <2> QED
    BY <2>1, <2>2
<1>3. ASSUME NEW w \in Workers,
             FinishDone(w) \/ FinishFailed(w) \/ FailedErrs(w)
      PROVE  LockInv'
  <2>1. Owns(w, cand[w])
    BY <1>3 DEF FinishDone, FinishFailed, FailedErrs, Owns, InFlight
  <2>2. /\ phase' = [phase EXCEPT ![w] = "idle"]
        /\ cand' = [cand EXCEPT ![w] = None]
    BY <1>3 DEF FinishDone, FinishFailed, FailedErrs, Idle
  <2>3. \A k \in Jobs : k # cand[w] => status'[k] = status[k]
    BY <1>3 DEF FinishDone, RecordDone, FinishFailed, FailedErrs, MarkFailed
  <2>4. \A k \in Jobs, v \in Workers : Owns(v, k)' => v # w /\ Owns(v, k)
    BY <2>2 DEF Owns, InFlight
  <2>5. \A k \in Jobs, v \in Workers : k = cand[w] /\ Owns(v, k) => v = w
    BY <2>1 DEF LockInv, OneOwner
  <2>6. \A k \in Jobs : \/ status'[k] = status[k]
                        \/ \A v \in Workers : ~ Owns(v, k)'
    BY <2>3, <2>4, <2>5
  <2> QED
    BY <2>4, <2>6, LockFrame
<1>4. ASSUME NEW w \in Workers, ClaimErrs(w)
      PROVE  LockInv'
  <2>1. \A k \in Jobs, v \in Workers : Owns(v, k)' => Owns(v, k)
    BY <1>4 DEF ClaimErrs, Idle, Owns, InFlight
  <2>2. \A k \in Jobs : \/ status'[k] = status[k]
                        \/ status'[k] = "running"
    BY <1>4 DEF ClaimErrs
  <2> QED
    BY <2>1, <2>2, LockFrame
<1>5. ASSUME NEW w \in Workers, DoneErrs(w)
      PROVE  LockInv'
  <2>1. \A k \in Jobs, v \in Workers : Owns(v, k)' => Owns(v, k)
    BY <1>5 DEF DoneErrs, Goto, Owns, InFlight
  <2>2. \A k \in Jobs : \/ status'[k] = status[k]
                        \/ status'[k] = "done"
    BY <1>5 DEF DoneErrs, RecordDone
  <2> QED
    BY <2>1, <2>2, LockFrame
<1>6. ASSUME NEW w \in Workers,
             \/ TickBegin(w) \/ Find(w) \/ Dispatch(w)
             \/ HandlerResolves(w) \/ HandlerFails(w)
             \/ Crash(w) \/ Life(w)
      PROVE  LockInv'
  <2>1. status' = status
    BY <1>6 DEF TickBegin, Find, Dispatch, HandlerResolves, HandlerFails,
                Crash, Gone, Life, Shutdown, ShutdownReturns, Exit, Boot
  <2>2. CASE TickBegin(w) \/ Dispatch(w) \/ HandlerResolves(w) \/ HandlerFails(w)
    <3>1. \A k \in Jobs, v \in Workers : Owns(v, k)' => Owns(v, k)
      BY <2>2 DEF TickBegin, Dispatch, HandlerResolves, HandlerFails, Goto,
                  Owns, InFlight
    <3> QED
      BY <2>1, <3>1, LockFrame
  <2>3. CASE Find(w) \/ Crash(w) \/ Exit(w)
    BY <2>1, <2>3, LockFrame DEF Find, Crash, Exit, Gone, Idle, Owns, InFlight
  <2>4. CASE Shutdown(w) \/ ShutdownReturns(w) \/ Boot(w)
    BY <2>1, <2>4, LockFrame DEF Shutdown, ShutdownReturns, Boot, Owns
  <2> QED
    BY <1>6, <2>2, <2>3, <2>4 DEF Life
<1>7. CASE Advance \/ UNCHANGED vars
  BY <1>7, LockFrame DEF Advance, vars, Owns
<1> QED
  BY <1>1, <1>2, <1>3, <1>4, <1>5, <1>6, <1>7 DEF Next, Tick, Trouble

LEMMA InitLock == Init => LockInv
BY DEF Init, LockInv, OneOwner, HeldIsTaken, Owns, InFlight

\* The claim of db-adapter.ts:11-18 for every number of processes: the
\* conditional update is a lock, at most one process ever holds a row, also
\* when calls fail, replies get lost and processes crash, stop and restart.
THEOREM ClaimIsALock == Spec => []OneOwner
<1>1. Spec => []LockInv
  BY InitLock, InitType, TypeStep, LockStep, PTL DEF Spec
<1>2. LockInv => OneOwner
  BY DEF LockInv
<1> QED
  BY <1>1, <1>2, PTL
-----------------------------------------------------------------------------
(* The ledger of attempts.  A stale read of the attempts column can only    *)
(* make a row look younger than it is, never older, so however the ticks    *)
(* of several processes interleave no attempt is charged that was not made. *)
RowsEarned ==
  \A j \in Jobs : /\ attempts[j] <= runs[j]
                  /\ status[j] = "done" => wins[j] > 0
                  /\ status[j] = "dead" => runs[j] >= MaxAttempts

TicksEarned ==
  \A w \in Workers :
    /\ phase[w] \notin {"idle", "find"} =>
         cand[w] \in Jobs /\ seen[w] <= runs[cand[w]]
    /\ phase[w] \in InFlight => seen[w] < runs[cand[w]]
    /\ phase[w] = "succeeded" => wins[cand[w]] > 0

EarnInv == RowsEarned /\ TicksEarned

LEMMA MarkFailedEarned ==
  ASSUME TypeOK, EarnInv, NEW w \in Workers, phase[w] \in InFlight,
         MarkFailed(cand[w], seen[w] + 1), UNCHANGED history
  PROVE  RowsEarned'
<1> DEFINE j == cand[w]
           n == seen[w] + 1
<1>1. j \in Jobs /\ n <= runs[j] /\ n \in Nat
  BY DEF EarnInv, TicksEarned, InFlight, TypeOK
<1>2. /\ attempts' = [attempts EXCEPT ![j] = n]
      /\ \/ n >= MaxAttempts /\ status' = [status EXCEPT ![j] = "dead"]
         \/ status' = [status EXCEPT ![j] = "pending"]
  BY DEF MarkFailed
<1>3. runs' = runs /\ wins' = wins
  BY DEF history
<1> HIDE DEF j, n
<1>4. \A k \in Jobs : attempts'[k] <= runs[k]
  BY <1>1, <1>2 DEF EarnInv, RowsEarned, TypeOK
<1>5. \A k \in Jobs : /\ status'[k] = "done" => wins[k] > 0
                      /\ status'[k] = "dead" => runs[k] >= MaxAttempts
  BY <1>1, <1>2, JobQueueAssumption DEF EarnInv, RowsEarned, TypeOK
<1> QED
  BY <1>3, <1>4, <1>5 DEF RowsEarned

\* A tick that ends, and every step that leaves the ticks and the history alone.
LEMMA TicksFrame ==
  ASSUME TypeOK, EarnInv, UNCHANGED history,
         \/ UNCHANGED tickVars
         \/ \E w \in Workers : Idle(w)
  PROVE  TicksEarned'
BY DEF TypeOK, EarnInv, TicksEarned, history, tickVars, Idle, InFlight

LEMMA EarnStep ==
  ASSUME TypeOK, EarnInv, [Next]_vars
  PROVE  EarnInv'
<1> USE DEF EarnInv
<1>1. ASSUME NEW j \in Jobs, NEW delay \in EnqueueDelay, Enqueue(j, delay)
      PROVE  EarnInv'
  <2>1. RowsEarned'
    BY <1>1 DEF Enqueue, RowsEarned, history, TypeOK
  <2> QED
    BY <1>1, <2>1, TicksFrame DEF Enqueue
<1>2. CASE Advance
  BY <1>2, TicksFrame DEF Advance, rowVars, history, RowsEarned
<1>3. ASSUME NEW w \in Workers, Tick(w)
      PROVE  EarnInv'
  <2>1. CASE TickBegin(w)
    BY <2>1 DEF TickBegin, Goto, rowVars, history, RowsEarned, TicksEarned,
                TypeOK, InFlight
  <2>2. CASE Find(w)
    <3>1. RowsEarned'
      BY <2>2 DEF Find, rowVars, history, RowsEarned
    <3>2. CASE Idle(w)
      BY <2>2, <3>1, <3>2, TicksFrame DEF Find
    <3>3. ASSUME NEW j \in Candidates,
                 phase' = [phase EXCEPT ![w] = "claim"],
                 cand'  = [cand EXCEPT ![w] = j],
                 seen'  = [seen EXCEPT ![w] = attempts[j]]
          PROVE  TicksEarned'
      <4>1. j \in Jobs /\ attempts[j] <= runs[j]
        BY DEF Candidates, RowsEarned
      <4> QED
        BY <2>2, <3>3, <4>1 DEF Find, history, TicksEarned, TypeOK, InFlight
    <3> QED
      BY <2>2, <3>1, <3>2, <3>3 DEF Find
  <2>3. CASE Claim(w)
    <3>1. RowsEarned'
      BY <2>3 DEF Claim, history, RowsEarned, TypeOK
    <3>2. CASE Idle(w)
      BY <2>3, <3>1, <3>2, TicksFrame DEF Claim
    <3>3. CASE Goto(w, "claim", "claimed")
      BY <2>3, <3>1, <3>3 DEF Claim, Goto, history, TicksEarned, TypeOK, InFlight
    <3> QED
      BY <2>3, <3>2, <3>3 DEF Claim
  <2>4. CASE Dispatch(w)
    <3>1. /\ phase[w] = "claimed"
          /\ phase' = [phase EXCEPT ![w] = "handling"]
          /\ runs' = [runs EXCEPT ![cand[w]] = @ + 1]
          /\ UNCHANGED <<status, attempts, wins, cand, seen>>
      BY <2>4 DEF Dispatch, Goto, rowVars
    <3>2. cand[w] \in Jobs /\ seen[w] <= runs[cand[w]]
      BY <3>1 DEF TicksEarned
    <3>3. \A k \in Jobs : runs'[k] \in Nat /\ runs'[k] >= runs[k]
      BY <3>1 DEF TypeOK
    <3>4. RowsEarned'
      BY <3>1, <3>3, JobQueueAssumption DEF RowsEarned, TypeOK
    <3>5. seen[w] < runs'[cand[w]]
      BY <3>1, <3>2 DEF TypeOK
    <3>6. TicksEarned'
      BY <3>1, <3>2, <3>3, <3>5 DEF TicksEarned, TypeOK, InFlight
    <3> QED
      BY <3>4, <3>6
  <2>5. CASE HandlerResolves(w)
    <3>1. /\ phase[w] = "handling"
          /\ phase' = [phase EXCEPT ![w] = "succeeded"]
          /\ wins' = [wins EXCEPT ![cand[w]] = @ + 1]
          /\ UNCHANGED <<status, attempts, runs, cand, seen>>
      BY <2>5 DEF HandlerResolves, Goto, rowVars
    <3>2. cand[w] \in Jobs
      BY <3>1 DEF TicksEarned
    <3>3. \A k \in Jobs : wins'[k] \in Nat /\ wins'[k] >= wins[k]
      BY <3>1 DEF TypeOK
    <3>4. RowsEarned'
      BY <3>1, <3>3 DEF RowsEarned, TypeOK
    <3>5. wins'[cand[w]] > 0
      BY <3>1, <3>2 DEF TypeOK
    <3>6. TicksEarned'
      BY <3>1, <3>2, <3>3, <3>5 DEF TicksEarned, TypeOK, InFlight
    <3> QED
      BY <3>4, <3>6
  <2>6. CASE HandlerFails(w)
    BY <2>6 DEF HandlerFails, Goto, rowVars, history, RowsEarned, TicksEarned,
                TypeOK, InFlight
  <2>7. CASE FinishDone(w)
    <3>1. RowsEarned'
      BY <2>7 DEF FinishDone, RecordDone, history, RowsEarned, TicksEarned, TypeOK
    <3> QED
      BY <2>7, <3>1, TicksFrame DEF FinishDone
  <2>8. CASE FinishFailed(w)
    <3>1. RowsEarned'
      BY <2>8, MarkFailedEarned DEF FinishFailed, InFlight
    <3> QED
      BY <2>8, <3>1, TicksFrame DEF FinishFailed
  <2> QED
    BY <1>3, <2>1, <2>2, <2>3, <2>4, <2>5, <2>6, <2>7, <2>8 DEF Tick
<1>4. ASSUME NEW w \in Workers, Trouble(w)
      PROVE  EarnInv'
  <2>1. CASE ClaimErrs(w)
    <3>1. RowsEarned'
      BY <2>1 DEF ClaimErrs, history, RowsEarned, TypeOK
    <3> QED
      BY <2>1, <3>1, TicksFrame DEF ClaimErrs
  <2>2. CASE DoneErrs(w)
    <3>1. RowsEarned'
      BY <2>2 DEF DoneErrs, Goto, RecordDone, rowVars, history, RowsEarned,
                  TicksEarned, TypeOK
    <3>2. TicksEarned'
      BY <2>2 DEF DoneErrs, Goto, history, TicksEarned, TypeOK, InFlight
    <3> QED
      BY <3>1, <3>2
  <2>3. CASE FailedErrs(w)
    <3>1. CASE UNCHANGED rowVars
      BY <2>3, <3>1, TicksFrame DEF FailedErrs, rowVars, history, RowsEarned
    <3>2. CASE MarkFailed(cand[w], seen[w] + 1)
      BY <2>3, <3>2, MarkFailedEarned, TicksFrame DEF FailedErrs, InFlight
    <3> QED
      BY <2>3, <3>1, <3>2 DEF FailedErrs
  <2>4. CASE Crash(w)
    BY <2>4, TicksFrame DEF Crash, Gone, rowVars, history, RowsEarned
  <2> QED
    BY <1>4, <2>1, <2>2, <2>3, <2>4 DEF Trouble
<1>5. ASSUME NEW w \in Workers, Life(w)
      PROVE  EarnInv'
  <2>1. CASE Shutdown(w) \/ ShutdownReturns(w) \/ Boot(w)
    BY <2>1, TicksFrame DEF Shutdown, ShutdownReturns, Boot, rowVars, history,
                            RowsEarned
  <2>2. CASE Exit(w)
    BY <2>2, TicksFrame DEF Exit, Gone, rowVars, history, RowsEarned
  <2> QED
    BY <1>5, <2>1, <2>2 DEF Life
<1>6. CASE UNCHANGED vars
  BY <1>6, TicksFrame DEF vars, rowVars, history, RowsEarned
<1> QED
  BY <1>1, <1>2, <1>3, <1>4, <1>5, <1>6 DEF Next

LEMMA InitEarned == Init => EarnInv
BY DEF Init, EarnInv, RowsEarned, TicksEarned, InFlight

\* No outcome is recorded that was not earned, for any number of processes:
\* done needs a handler that resolved, dead needs MAX_ATTEMPTS attempts
\* (db-adapter.ts:246-275).
THEOREM OutcomesAreEarned == Spec => []OutcomeEarned
<1>1. Spec => []EarnInv
  BY InitEarned, InitType, TypeStep, EarnStep, PTL DEF Spec
<1>2. EarnInv => OutcomeEarned
  BY DEF EarnInv, RowsEarned, OutcomeEarned
<1> QED
  BY <1>1, <1>2, PTL
-----------------------------------------------------------------------------
(* The refinement of JobLedger by a single process.  What the process read  *)
(* is still true when it writes, so every attempt is counted from where the  *)
(* row stands; a row that waits or is held has an attempt left; and a row    *)
(* that is held is running, or done if the answer to that update was lost.   *)
Fresh ==
  \A w \in Workers :
    phase[w] \notin {"idle", "find"} =>
      cand[w] \in Jobs /\ seen[w] = attempts[cand[w]]

Spare ==
  \A j \in Jobs : status[j] \in {"absent", "pending"} \/ Busy(j) => attempts[j] < MaxAttempts

HeldIsRunning ==
  \A j \in Jobs, w \in Workers : Owns(w, j) => status[j] \in {"running", "done"}

SoloInv == TypeOK /\ Fresh /\ Spare /\ HeldIsRunning

\* Who owns what, for a step that moves one tick.
LEMMA OwnsMoved ==
  ASSUME TypeOK, NEW w \in Workers, Workers = {w}
  PROVE  /\ \A j \in Jobs : Busy(j) <=> Owns(w, j)
         /\ \A j \in Jobs : Busy(j)' <=> Owns(w, j)'
BY DEF Busy, Owns

LEMMA InitSolo == Init => SoloInv
BY InitType, JobQueueAssumption DEF Init, SoloInv, Fresh, Spare, HeldIsRunning, Owns, InFlight, Busy

\* markFailed of the only process counts the attempt it was the owner of.
LEMMA SoloMarkFailed ==
  ASSUME SoloInv, NEW w \in Workers, Workers = {w}, phase[w] \in InFlight,
         MarkFailed(cand[w], seen[w] + 1)
  PROVE  /\ cand[w] \in Jobs
         /\ attempts' = [attempts EXCEPT ![cand[w]] = @ + 1]
         /\ attempts[cand[w]] + 1 <= MaxAttempts
         /\ status' = [status EXCEPT ![cand[w]] =
                         IF attempts[cand[w]] + 1 = MaxAttempts THEN "dead" ELSE "pending"]
<1>1. /\ cand[w] \in Jobs /\ seen[w] = attempts[cand[w]]
      /\ attempts[cand[w]] \in Nat
  BY DEF SoloInv, TypeOK, Fresh, InFlight
<1>2. attempts[cand[w]] < MaxAttempts
  BY <1>1 DEF SoloInv, Spare, Busy, Owns
<1>3. attempts' = [attempts EXCEPT ![cand[w]] = @ + 1]
  BY <1>1 DEF MarkFailed, SoloInv, TypeOK
<1>4. attempts[cand[w]] + 1 >= MaxAttempts <=> attempts[cand[w]] + 1 = MaxAttempts
  BY <1>1, <1>2, JobQueueAssumption
<1>5. status' = [status EXCEPT ![cand[w]] =
                   IF attempts[cand[w]] + 1 = MaxAttempts THEN "dead" ELSE "pending"]
  BY <1>1, <1>4, JobQueueAssumption DEF MarkFailed
<1> QED
  BY <1>1, <1>2, <1>3, <1>5, JobQueueAssumption

\* A step that leaves all rows but k as the ledger sees them, and moves k as the
\* ledger may.
Still(j) == /\ status'[j] = status[j]
            /\ attempts'[j] = attempts[j]
            /\ Busy(j)' = Busy(j)

LEMMA LedgerFrame ==
  ASSUME TypeOK, TypeOK', \A j \in Jobs : Still(j)
  PROVE  UNCHANGED Ledger!ledger
<1>1. attempts' = attempts
  BY DEF TypeOK, Still
<1>2. [j \in Jobs |-> Busy(j)]' = [j \in Jobs |-> Busy(j)]
  BY DEF Still
<1>3. [j \in Jobs |-> IF Busy(j) THEN "leased" ELSE status[j]]'
        = [j \in Jobs |-> IF Busy(j) THEN "leased" ELSE status[j]]
  BY DEF Still
<1> QED
  BY <1>1, <1>2, <1>3 DEF Ledger!ledger

LedgerState == [j \in Jobs |-> IF Busy(j) THEN "leased" ELSE status[j]]
LedgerHeld  == [j \in Jobs |-> Busy(j)]

LEMMA LedgerMoves ==
  ASSUME TypeOK, TypeOK', NEW k \in Jobs, \A j \in Jobs \ {k} : Still(j)
  PROVE  /\ /\ status[k] = "absent" /\ ~ Busy(k) /\ ~ Busy(k)'
            /\ status'[k] = "pending" /\ attempts'[k] = attempts[k]
            => Ledger!Put(k)
         /\ /\ status[k] = "pending" /\ ~ Busy(k) /\ Busy(k)' /\ attempts'[k] = attempts[k]
            => Ledger!Lease(k)
         /\ /\ (Busy(k) \/ status[k] = "pending") /\ ~ Busy(k)'
            /\ status'[k] = "running" /\ attempts'[k] = attempts[k]
            => Ledger!Strand(k)
         /\ /\ Busy(k) /\ ~ Busy(k)' /\ status'[k] = "done" /\ attempts'[k] = attempts[k]
            => Ledger!Succeed(k)
         /\ /\ Busy(k) /\ ~ Busy(k)' /\ attempts'[k] = attempts[k] + 1
            /\ status'[k] = IF attempts[k] + 1 = MaxAttempts THEN "dead" ELSE "pending"
            => Ledger!Fail(k)
<1>1. attempts' = [attempts EXCEPT ![k] = attempts'[k]]
  BY DEF TypeOK, Still
<1>2. /\ LedgerState[k] = IF Busy(k) THEN "leased" ELSE status[k]
      /\ LedgerHeld[k] = Busy(k)
  BY DEF LedgerState, LedgerHeld
<1>3. /\ Busy(k)' => LedgerState' = [LedgerState EXCEPT ![k] = "leased"]
      /\ ~ Busy(k)' => LedgerState' = [LedgerState EXCEPT ![k] = status'[k]]
  BY DEF LedgerState, Still
<1>4. /\ Busy(k)' => LedgerHeld' = [LedgerHeld EXCEPT ![k] = TRUE]
      /\ ~ Busy(k)' => LedgerHeld' = [LedgerHeld EXCEPT ![k] = FALSE]
  BY DEF LedgerHeld, Still, Busy
<1>5. (Busy(k) <=> Busy(k)') => LedgerHeld' = LedgerHeld
  BY DEF LedgerHeld, Still, Busy
<1>6. attempts'[k] = attempts[k] => attempts' = attempts
  BY <1>1 DEF TypeOK
<1>7. attempts'[k] = attempts[k] + 1 => attempts' = [attempts EXCEPT ![k] = @ + 1]
  BY <1>1 DEF TypeOK
<1>8. /\ status[k] = "absent" /\ ~ Busy(k) /\ ~ Busy(k)'
      /\ status'[k] = "pending" /\ attempts'[k] = attempts[k]
      => Ledger!Put(k)
  BY <1>2, <1>3, <1>5, <1>6 DEF Ledger!Put, LedgerState, LedgerHeld
<1>9. /\ status[k] = "pending" /\ ~ Busy(k) /\ Busy(k)' /\ attempts'[k] = attempts[k]
      => Ledger!Lease(k)
  BY <1>2, <1>3, <1>4, <1>6 DEF Ledger!Lease, LedgerState, LedgerHeld
<1>10. /\ (Busy(k) \/ status[k] = "pending") /\ ~ Busy(k)'
       /\ status'[k] = "running" /\ attempts'[k] = attempts[k]
       => Ledger!Strand(k)
  BY <1>2, <1>3, <1>4, <1>6 DEF Ledger!Strand, LedgerState, LedgerHeld
<1>11. /\ Busy(k) /\ ~ Busy(k)' /\ status'[k] = "done" /\ attempts'[k] = attempts[k]
       => Ledger!Succeed(k)
  BY <1>2, <1>3, <1>4, <1>6 DEF Ledger!Succeed, Ledger!Release, LedgerState, LedgerHeld
<1>12. /\ Busy(k) /\ ~ Busy(k)' /\ attempts'[k] = attempts[k] + 1
       /\ status'[k] = IF attempts[k] + 1 = MaxAttempts THEN "dead" ELSE "pending"
       => Ledger!Fail(k)
  BY <1>2, <1>3, <1>4, <1>7 DEF Ledger!Fail, Ledger!Release, LedgerState, LedgerHeld
<1> QED
  BY <1>8, <1>9, <1>10, <1>11, <1>12

\* A step that changes neither rows nor owners is none of the ledger.
LEMMA SoloQuiet ==
  ASSUME SoloInv, TypeOK', Fresh', NEW w \in Workers, Workers = {w},
         status' = status, attempts' = attempts,
         \A j \in Jobs : Owns(w, j)' <=> Owns(w, j)
  PROVE  SoloInv' /\ UNCHANGED Ledger!ledger
<1>1. \A j \in Jobs : Busy(j)' <=> Busy(j)
  BY OwnsMoved DEF SoloInv
<1>2. \A j \in Jobs : Still(j)
  BY <1>1 DEF Still, Busy
<1>3. UNCHANGED Ledger!ledger
  BY <1>2, LedgerFrame DEF SoloInv
<1>4. Spare' /\ HeldIsRunning'
  BY <1>1 DEF SoloInv, Spare, HeldIsRunning
<1> QED
  BY <1>3, <1>4 DEF SoloInv

\* The tick of row k ends, or never gets it; the other rows stay as they are.
LEMMA SoloEnds ==
  ASSUME SoloInv, TypeOK', NEW w \in Workers, Workers = {w}, Idle(w),
         NEW k \in Jobs, cand[w] = k,
         status' = [status EXCEPT ![k] = status'[k]],
         attempts' = [attempts EXCEPT ![k] = attempts'[k]],
         status'[k] = "pending" => attempts'[k] < MaxAttempts,
         status'[k] # "absent"
  PROVE  /\ SoloInv'
         /\ ~ Busy(k)'
         /\ Busy(k) <=> Owns(w, k)
         /\ \A j \in Jobs \ {k} : Still(j)
<1>1. \A j \in Jobs : ~ Owns(w, j)'
  BY DEF Idle, Owns, InFlight, SoloInv, TypeOK
<1>2. \A j \in Jobs : ~ Busy(j)'
  BY <1>1, OwnsMoved DEF SoloInv
<1>3. \A j \in Jobs \ {k} : ~ Busy(j)
  BY OwnsMoved DEF SoloInv, Owns
<1>4. \A j \in Jobs \ {k} : status'[j] = status[j] /\ attempts'[j] = attempts[j]
  BY DEF SoloInv, TypeOK
<1>5. \A j \in Jobs \ {k} : Still(j)
  BY <1>2, <1>3, <1>4 DEF Still, Busy
<1>6. Spare'
  BY <1>2, <1>4 DEF SoloInv, Spare
<1>7. HeldIsRunning'
  BY <1>1 DEF HeldIsRunning
<1>8. Fresh'
  BY DEF Fresh, Idle, SoloInv, TypeOK
<1> QED
  BY <1>2, <1>5, <1>6, <1>7, <1>8, OwnsMoved DEF SoloInv

LEMMA SoloStep ==
  ASSUME SoloInv, [Next]_vars, NEW w \in Workers, Workers = {w}
  PROVE  SoloInv' /\ [Ledger!Next]_(Ledger!ledger)
<1> DEFINE Good == SoloInv' /\ (Ledger!Next \/ UNCHANGED Ledger!ledger)
<1>a. TypeOK /\ TypeOK'
  BY TypeStep DEF SoloInv
<1>b. phase \in [Workers -> Phases] /\ cand \in [Workers -> Jobs \cup {None}]
      /\ seen \in [Workers -> Nat] /\ status \in [Jobs -> Statuses] /\ attempts \in [Jobs -> Nat]
  BY <1>a DEF TypeOK
<1>c. phase[w] \notin {"idle", "find"} => cand[w] \in Jobs /\ seen[w] = attempts[cand[w]]
  BY DEF SoloInv, Fresh
<1> USE DEF rowVars, tickVars
<1>1. ASSUME NEW j \in Jobs, NEW delay \in EnqueueDelay, Enqueue(j, delay)
      PROVE  Good
  <2>1. /\ status[j] = "absent" /\ status' = [status EXCEPT ![j] = "pending"]
        /\ attempts' = attempts /\ UNCHANGED <<phase, cand, seen>>
    BY <1>1 DEF Enqueue
  <2>2. \A k \in Jobs : Busy(k)' <=> Busy(k)
    BY <2>1 DEF Busy, Owns
  <2>3. \A k \in Jobs \ {j} : Still(k)
    BY <2>1, <2>2, <1>b DEF Still, Busy
  <2>4. ~ Owns(w, j) /\ ~ Busy(j) /\ ~ Busy(j)'
    BY <2>1, <2>2, <1>a, OwnsMoved DEF SoloInv, HeldIsRunning
  <2>5. Ledger!Put(j)
    BY <2>1, <2>3, <2>4, <1>a, <1>b, LedgerMoves
  <2>6. Fresh' /\ Spare' /\ HeldIsRunning'
    BY <2>1, <2>2, <2>4, <1>b DEF SoloInv, Fresh, Spare, HeldIsRunning, Owns
  <2> QED
    BY <2>5, <2>6, <1>a DEF SoloInv, Ledger!Next
<1>2. CASE \/ Advance \/ TickBegin(w) \/ Dispatch(w) \/ HandlerResolves(w) \/ HandlerFails(w)
           \/ Shutdown(w) \/ ShutdownReturns(w) \/ Boot(w) \/ UNCHANGED vars
  <2>1. status' = status /\ attempts' = attempts /\ cand' = cand /\ seen' = seen
    BY <1>2 DEF Advance, TickBegin, Dispatch, HandlerResolves, HandlerFails, Goto,
                Shutdown, ShutdownReturns, Boot, vars
  <2>2. \/ phase' = phase
        \/ phase[w] = "idle" /\ phase' = [phase EXCEPT ![w] = "find"]
        \/ phase[w] = "claimed" /\ phase' = [phase EXCEPT ![w] = "handling"]
        \/ phase[w] = "handling" /\ phase' = [phase EXCEPT ![w] = "succeeded"]
        \/ phase[w] = "handling" /\ phase' = [phase EXCEPT ![w] = "failed"]
    BY <1>2 DEF Advance, TickBegin, Dispatch, HandlerResolves, HandlerFails, Goto,
                Shutdown, ShutdownReturns, Boot, vars
  <2>3. \A j \in Jobs : Owns(w, j)' <=> Owns(w, j)
    BY <2>1, <2>2, <1>b DEF Owns, InFlight
  <2>4. Fresh'
    BY <2>1, <2>2, <1>b DEF SoloInv, Fresh
  <2> QED
    BY <2>1, <2>3, <2>4, <1>a, SoloQuiet
<1>3. CASE Find(w)
  <2>1. status' = status /\ attempts' = attempts /\ phase[w] = "find"
    BY <1>3 DEF Find
  <2>2. CASE Idle(w)
    <3>1. Fresh' /\ \A j \in Jobs : Owns(w, j)' <=> Owns(w, j)
      BY <2>1, <2>2, <1>b DEF SoloInv, Fresh, Idle, Owns, InFlight
    <3> QED
      BY <3>1, <2>1, <1>a, SoloQuiet
  <2>3. ASSUME NEW j \in Candidates,
               phase' = [phase EXCEPT ![w] = "claim"],
               cand'  = [cand EXCEPT ![w] = j],
               seen'  = [seen EXCEPT ![w] = attempts[j]]
        PROVE  Good
    <3>1. j \in Jobs
      BY DEF Candidates
    <3>2. Fresh' /\ \A k \in Jobs : Owns(w, k)' <=> Owns(w, k)
      BY <3>1, <2>1, <2>3, <1>b DEF SoloInv, Fresh, Owns, InFlight
    <3> QED
      BY <3>2, <2>1, <1>a, SoloQuiet
  <2> QED
    BY <1>3, <2>2, <2>3 DEF Find
<1>4. CASE Claim(w)
  <2>1. phase[w] = "claim" /\ attempts' = attempts /\ cand[w] \in Jobs
    BY <1>4, <1>c DEF Claim
  <2>2. CASE Idle(w) /\ status' = status
    <3>1. Fresh' /\ \A j \in Jobs : Owns(w, j)' <=> Owns(w, j)
      BY <2>1, <2>2, <1>b DEF SoloInv, Fresh, Idle, Owns, InFlight
    <3> QED
      BY <3>1, <2>1, <2>2, <1>a, SoloQuiet
  <2>3. CASE /\ status[cand[w]] = "pending"
             /\ status' = [status EXCEPT ![cand[w]] = "running"]
             /\ Goto(w, "claim", "claimed")
    <3>1. phase' = [phase EXCEPT ![w] = "claimed"] /\ cand' = cand /\ seen' = seen
      BY <2>3 DEF Goto
    <3>0. PICK k \in Jobs : k = cand[w]
      BY <2>1
    <3>2. \A j \in Jobs : ~ Owns(w, j) /\ (Owns(w, j)' <=> j = k)
      BY <2>1, <3>0, <3>1, <1>b DEF Owns, InFlight
    <3>3. \A j \in Jobs : ~ Busy(j) /\ (Busy(j)' <=> j = k)
      BY <3>2, <1>a, OwnsMoved
    <3>4. \A j \in Jobs \ {k} : Still(j)
      <4>1. \A j \in Jobs \ {k} : Busy(j)' = Busy(j)
        BY <3>3 DEF Busy
      <4> QED
        BY <2>1, <2>3, <3>0, <4>1, <1>b DEF Still
    <3>5. Ledger!Lease(k)
      BY <2>1, <2>3, <3>0, <3>3, <3>4, <1>a, LedgerMoves
    <3>6. Fresh'
      BY <2>1, <3>1, <1>b, <1>c DEF SoloInv, Fresh
    <3>7. Spare'
      BY <2>1, <2>3, <3>0, <3>3, <1>b DEF SoloInv, Spare
    <3>8. HeldIsRunning'
      BY <2>1, <2>3, <3>0, <3>1, <3>2, <1>b DEF HeldIsRunning, Owns
    <3> QED
      BY <3>5, <3>6, <3>7, <3>8, <1>a DEF SoloInv, Ledger!Next
  <2> QED
    BY <1>4, <2>2, <2>3 DEF Claim
<1>5. CASE ClaimErrs(w)
  <2>1. phase[w] \in {"find", "claim"} /\ Idle(w) /\ attempts' = attempts
    BY <1>5 DEF ClaimErrs
  <2>2. CASE status' = status
    <3>1. Fresh' /\ \A j \in Jobs : Owns(w, j)' <=> Owns(w, j)
      BY <2>1, <2>2, <1>b DEF SoloInv, Fresh, Idle, Owns, InFlight
    <3> QED
      BY <3>1, <2>1, <2>2, <1>a, SoloQuiet
  <2>3. CASE /\ phase[w] = "claim" /\ status[cand[w]] = "pending"
             /\ status' = [status EXCEPT ![cand[w]] = "running"]
    <3>0. PICK k \in Jobs : k = cand[w]
      BY <2>3, <1>c
    <3>1. k \in Jobs /\ status'[k] = "running" /\ status' = [status EXCEPT ![k] = status'[k]]
          /\ attempts' = [attempts EXCEPT ![k] = attempts'[k]] /\ attempts'[k] = attempts[k]
      BY <2>1, <2>3, <3>0, <1>b
    <3>2. SoloInv' /\ ~ Busy(k)' /\ \A j \in Jobs \ {k} : Still(j)
      BY <2>1, <3>0, <3>1, <1>a, SoloEnds
    <3>3. Ledger!Strand(k)
      BY <2>3, <3>0, <3>1, <3>2, <1>a, LedgerMoves
    <3> QED
      BY <3>2, <3>3 DEF Ledger!Next
  <2> QED
    BY <1>5, <2>2, <2>3 DEF ClaimErrs
<1>6. CASE \/ phase[w] = "succeeded" /\ RecordDone(cand[w]) /\ Idle(w)
           \/ UNCHANGED rowVars /\ Idle(w)
  <2>1. CASE ~ \E j \in Jobs : Owns(w, j)
    <3>1. UNCHANGED rowVars
      BY <1>6, <2>1, <1>c DEF Owns, InFlight
    <3>2. Fresh' /\ \A j \in Jobs : Owns(w, j)' <=> Owns(w, j)
      BY <1>6, <2>1, <1>b DEF SoloInv, Fresh, Idle, Owns, InFlight
    <3> QED
      BY <3>1, <3>2, <1>a, SoloQuiet
  <2>2. CASE \E j \in Jobs : Owns(w, j)
    <3>0. PICK k \in Jobs : Owns(w, k)
      BY <2>2
    <3>1. Owns(w, k) /\ cand[w] = k /\ Idle(w)
      BY <1>6, <3>0 DEF Owns
    <3>2. status[k] \in {"running", "done"}
      BY <3>1 DEF SoloInv, HeldIsRunning
    <3>3. /\ status'[k] \in {"running", "done"} /\ attempts'[k] = attempts[k]
          /\ status' = [status EXCEPT ![k] = status'[k]]
          /\ attempts' = [attempts EXCEPT ![k] = attempts'[k]]
      BY <1>6, <3>1, <3>2, <1>b DEF RecordDone
    <3>4. SoloInv' /\ ~ Busy(k)' /\ Busy(k) /\ \A j \in Jobs \ {k} : Still(j)
      BY <3>1, <3>3, <1>a, SoloEnds
    <3>5. Ledger!Strand(k) \/ Ledger!Succeed(k)
      BY <3>1, <3>3, <3>4, <1>a, LedgerMoves
    <3> QED
      BY <3>1, <3>4, <3>5 DEF Ledger!Next
  <2> QED
    BY <2>1, <2>2
<1>7. CASE phase[w] = "failed" /\ MarkFailed(cand[w], seen[w] + 1) /\ Idle(w)
  <2>0. PICK k \in Jobs : k = cand[w]
    BY <1>7, <1>c
  <2>n. PICK n \in Nat : n = attempts[k] + 1
    BY <1>b
  <2>1. /\ k \in Jobs /\ attempts' = [attempts EXCEPT ![k] = n] /\ n <= MaxAttempts
        /\ status' = [status EXCEPT ![k] = IF n = MaxAttempts THEN "dead" ELSE "pending"]
    BY <1>7, <2>0, <2>n, SoloMarkFailed DEF InFlight
  <2>2. /\ attempts'[k] = n /\ attempts' = [attempts EXCEPT ![k] = attempts'[k]]
        /\ status'[k] = IF n = MaxAttempts THEN "dead" ELSE "pending"
        /\ status' = [status EXCEPT ![k] = status'[k]]
        /\ status'[k] = "pending" => attempts'[k] < MaxAttempts
        /\ status'[k] # "absent"
    BY <2>1, <2>n, <1>b, JobQueueAssumption
  <2>3. Owns(w, k)
    BY <1>7, <2>0 DEF Owns, InFlight
  <2>4. SoloInv' /\ ~ Busy(k)' /\ Busy(k) /\ \A j \in Jobs \ {k} : Still(j)
    <3>1. Idle(w) /\ cand[w] = k
      BY <1>7, <2>0
    <3> HIDE DEF Good
    <3> QED
      BY <3>1, <2>2, <2>3, <1>a, SoloEnds
  <2>5. /\ attempts'[k] = attempts[k] + 1
        /\ status'[k] = IF attempts[k] + 1 = MaxAttempts THEN "dead" ELSE "pending"
    BY <2>n, <2>2
  <2>6. Ledger!Fail(k)
    BY <2>4, <2>5, <1>a, LedgerMoves
  <2> QED
    BY <2>4, <2>6 DEF Ledger!Next
<1>8. CASE DoneErrs(w)
  <2>1. /\ phase[w] = "succeeded" /\ phase' = [phase EXCEPT ![w] = "failed"]
        /\ cand' = cand /\ seen' = seen /\ attempts' = attempts /\ cand[w] \in Jobs
        /\ status' = status \/ status' = [status EXCEPT ![cand[w]] = "done"]
    BY <1>8, <1>c DEF DoneErrs, Goto, RecordDone
  <2>2. \A j \in Jobs : (Owns(w, j)' <=> Owns(w, j)) /\ (Owns(w, j) <=> j = cand[w])
    BY <2>1, <1>b DEF Owns, InFlight
  <2>3. \A j \in Jobs : (Busy(j)' <=> Busy(j)) /\ (Busy(j) <=> j = cand[w])
    BY <2>2, <1>a, OwnsMoved
  <2>4. Fresh' /\ Spare' /\ HeldIsRunning'
    BY <2>1, <2>2, <2>3, <1>b DEF SoloInv, Fresh, Spare, HeldIsRunning
  <2>5. LedgerState' = LedgerState
    BY <2>1, <2>3, <1>b DEF LedgerState
  <2>6. LedgerHeld' = LedgerHeld
    BY <2>3 DEF LedgerHeld, Busy
  <2> QED
    BY <2>1, <2>4, <2>5, <2>6, <1>a DEF SoloInv, Ledger!ledger, LedgerState, LedgerHeld
<1>9. ASSUME Tick(w) \/ Trouble(w) \/ Life(w)
      PROVE  Good
  BY <1>9, <1>2, <1>3, <1>4, <1>5, <1>6, <1>7, <1>8
     DEF Tick, Trouble, Life, FinishDone, FinishFailed, FailedErrs, Exit, Crash, Gone
<1> QED
  BY <1>1, <1>2, <1>9 DEF Next

LEMMA InitLedger == Init => Ledger!Init
BY DEF Init, Ledger!Init, Busy, Owns, InFlight

\* One process implements the ledger, for any number of rows, attempts and
\* back-offs, and any number of crashes, failing calls and stops: every attempt is
\* leased once, settled once and counted once, and a row is buried exactly at its
\* last attempt (db-adapter.ts:171-290, index.ts starts one adapter).
THEOREM SoloImplementsLedger ==
  ASSUME NEW w \in Workers, Workers = {w}
  PROVE  Spec => ImplementsLedger
<1>1. Init => Ledger!Init /\ SoloInv
  BY InitLedger, InitSolo
<1>2. SoloInv /\ [Next]_vars => SoloInv' /\ [Ledger!Next]_(Ledger!ledger)
  BY SoloStep
<1> QED
  BY <1>1, <1>2, PTL DEF Spec, ImplementsLedger, Ledger!Spec
-----------------------------------------------------------------------------
(* The schedules.  A chain goes on by its token: a row that waits, or one   *)
(* whose handler has yet to enqueue the next.                               *)

Steps == {"body", "next", "rethrow", "return", "throw"}

ChainTypes ==
  /\ TypeOK
  /\ kind \in [Jobs -> Kinds \cup {"none"}] /\ step \in [Workers -> Steps]
  /\ owes \in [Workers -> SUBSET Kinds] /\ begun \in [Kinds -> Nat]

\* A handler runs in no other phase, and of a row.
Handled == \A w \in Workers :
  /\ phase[w] # "handling" => step[w] = "body"
  /\ phase[w] \notin {"idle", "find"} => cand[w] \in Jobs

Carries(w) == phase[w] \in {"claimed", "handling"} /\ step[w] \in {"body", "next", "rethrow"}

Token(j) == status[j] = "pending" \/ \E w \in Workers : cand[w] = j /\ Carries(w)

Tokens(k) == {j \in Jobs : kind[j] = k /\ Token(j)}

Alive == Begun("detection") => Tokens("detection") # {}

Few == (\A j \in Jobs : attempts[j] = 0) =>
  \A k \in Kinds : IsFiniteSet(Tokens(k)) /\ Cardinality(Tokens(k)) <= begun[k]

ChainInv == ChainTypes /\ Handled /\ LockInv /\ (faults = 0 => Alive /\ Few)

\* Enqueue with any delay, as the schedules ask for it.
LEMMA EnqueueKeeps ==
  ASSUME TypeOK, LockInv, NEW j \in Jobs, NEW delay \in Nat, Enqueue(j, delay)
  PROVE  TypeOK' /\ LockInv'
<1>1. Due(clock + delay) \in Nat
  BY DueIsNat DEF TypeOK
<1>2. TypeOK'
  BY <1>1 DEF Enqueue, TypeOK, Statuses, tickVars, history, bounds
<1>3. \A w \in Workers : ~ Owns(w, j)
  BY DEF Enqueue, LockInv, HeldIsTaken
<1>4. \A k \in Jobs, w \in Workers : Owns(w, k)' = Owns(w, k)
  BY DEF Enqueue, Owns, tickVars
<1>5. \A k \in Jobs : k # j => status'[k] = status[k]
  BY DEF Enqueue, TypeOK
<1>6. LockInv'
  BY <1>3, <1>4, <1>5, LockFrame
<1> QED BY <1>2, <1>6

\* The queue's own steps are those of JobQueue.
LEMMA QueueIsQueue ==
  ASSUME TypeOK, LockInv, NEW w \in Workers,
         QueueStep(w) \/ HandlerResolves(w) \/ HandlerFails(w) \/ UNCHANGED vars
  PROVE  TypeOK' /\ LockInv'
<1>1. [Next]_vars
  BY Zenon DEF QueueStep, Next, Tick, Trouble, Life
<1> QED BY <1>1, TypeStep, LockStep

\* A failed enqueue whose row was written all the same.
LEMMA RowAnyway ==
  ASSUME TypeOK, LockInv, NEW j \in Jobs, NEW delay \in Nat,
         status[j] = "absent", status' = [status EXCEPT ![j] = "pending"],
         runAfter' = [runAfter EXCEPT ![j] = Due(clock + delay)], faults' \in Nat,
         UNCHANGED <<attempts, clock, mode, tickVars, history, crashes, stops>>
  PROVE  TypeOK' /\ LockInv'
<1>1. Due(clock + delay) \in Nat
  BY DueIsNat DEF TypeOK
<1>2. TypeOK'
  BY <1>1 DEF TypeOK, Statuses, tickVars, history
<1>3. \A w \in Workers : ~ Owns(w, j)
  BY DEF LockInv, HeldIsTaken
<1>4. \A k \in Jobs, w \in Workers : Owns(w, k)' = Owns(w, k)
  BY DEF Owns, tickVars
<1>5. \A k \in Jobs : k # j => status'[k] = status[k]
  BY DEF TypeOK
<1>6. LockInv'
  BY <1>3, <1>4, <1>5, LockFrame
<1> QED BY <1>2, <1>6

LEMMA QueueKept ==
  ASSUME ChainInv, NEW w \in Workers,
         \/ QueueStep(w) \/ Detect(w) \/ Digest(w) \/ HandlerEnds(w) \/ ScheduleErrs(w) \/ BootstrapSkips(w)
         \/ \E j \in Jobs : ScheduleNext(w, j)
         \/ \E k \in Kinds : BootstrapErrs(w, k) \/ \E j \in Jobs : Bootstrap(w, k, j)
  PROVE  TypeOK' /\ LockInv'
<1> USE SchedulesAssumption DEF ChainInv, ChainTypes
<1>1. CASE QueueStep(w) \/ HandlerEnds(w)
  BY <1>1, QueueIsQueue DEF HandlerEnds
<1>2. CASE Detect(w) \/ Digest(w) \/ BootstrapSkips(w)
  BY <1>2, QueueIsQueue DEF Detect, Digest, BootstrapSkips
<1>3. ASSUME NEW j \in Jobs, ScheduleNext(w, j)
      PROVE  TypeOK' /\ LockInv'
  BY <1>3, EnqueueKeeps DEF ScheduleNext, Add
<1>4. ASSUME NEW k \in Kinds, NEW j \in Jobs, Bootstrap(w, k, j)
      PROVE  TypeOK' /\ LockInv'
  BY <1>4, EnqueueKeeps DEF Bootstrap, Add
<1>5. ASSUME UNCHANGED <<rowVars, clock, mode, tickVars, history, crashes, stops>>, faults' \in Nat
      PROVE  TypeOK' /\ LockInv'
  <2>1. TypeOK'
    BY <1>5 DEF TypeOK, rowVars, tickVars, history
  <2>2. LockInv'
    BY <1>5, LockFrame DEF Owns, rowVars, tickVars
  <2> QED BY <2>1, <2>2
<1>6. Fault => faults' \in Nat /\ UNCHANGED <<crashes, stops>>
  BY DEF Fault, TypeOK
<1>7. ASSUME NEW k \in Kinds, BootstrapErrs(w, k)
      PROVE  TypeOK' /\ LockInv'
  BY <1>5, <1>6, <1>7 DEF BootstrapErrs
<1>8. CASE ScheduleErrs(w)
  <2>1. CASE UNCHANGED rowVars
    BY <1>5, <1>6, <1>8, <2>1 DEF ScheduleErrs
  <2>2. ASSUME NEW j \in Jobs, status[j] = "absent", status' = [status EXCEPT ![j] = "pending"],
               runAfter' = [runAfter EXCEPT ![j] = Due(clock + Interval)], attempts' = attempts
        PROVE  TypeOK' /\ LockInv'
    BY <1>6, <1>8, <2>2, RowAnyway DEF ScheduleErrs
  <2> QED BY <1>8, <2>1, <2>2 DEF ScheduleErrs
<1> QED BY <1>1, <1>2, <1>3, <1>4, <1>7, <1>8

LEMMA ChainTypesKept ==
  ASSUME ChainInv, [SNext]_allVars
  PROVE  ChainTypes' /\ LockInv'
<1>1. CASE UNCHANGED allVars
  <2>1. [Next]_vars
    BY <1>1 DEF allVars
  <2> QED BY <1>1, <2>1, TypeStep, LockStep DEF ChainInv, ChainTypes, allVars, chainVars
<1>2. ASSUME NEW w \in Workers,
         \/ QueueStep(w) \/ Detect(w) \/ Digest(w) \/ HandlerEnds(w) \/ ScheduleErrs(w) \/ BootstrapSkips(w)
         \/ \E j \in Jobs : ScheduleNext(w, j)
         \/ \E k \in Kinds : BootstrapErrs(w, k) \/ \E j \in Jobs : Bootstrap(w, k, j)
      PROVE  ChainTypes' /\ LockInv'
  <2> USE DEF ChainInv, ChainTypes
  <2>1. TypeOK' /\ LockInv'
    BY <1>2, QueueKept
  <2>2. step' \in [Workers -> Steps]
    <3>1. \A from, to : At(w, from, to) /\ to \in Steps => step' \in [Workers -> Steps]
      BY DEF At
    <3>2. "body" \in Steps /\ "next" \in Steps /\ "rethrow" \in Steps /\ "return" \in Steps /\ "throw" \in Steps
      BY DEF Steps
    <3>3. CASE QueueStep(w) \/ HandlerEnds(w) \/ BootstrapSkips(w)
      BY <3>2, <3>3 DEF QueueStep, HandlerEnds, BootstrapSkips, chainVars
    <3>4. CASE Detect(w) \/ Digest(w) \/ ScheduleErrs(w) \/ \E j \in Jobs : ScheduleNext(w, j)
      BY <3>1, <3>2, <3>4, Zenon DEF Detect, Digest, ScheduleErrs, ScheduleNext
    <3>5. CASE \E k \in Kinds : BootstrapErrs(w, k) \/ \E j \in Jobs : Bootstrap(w, k, j)
      BY <3>5 DEF BootstrapErrs, Bootstrap
    <3> QED BY <1>2, <3>3, <3>4, <3>5
  <2>3. kind' \in [Jobs -> Kinds \cup {"none"}]
    <3>1. ASSUME \E j \in Jobs : ScheduleNext(w, j)
          PROVE  kind' \in [Jobs -> Kinds \cup {"none"}]
      <4>1. cand[w] \in Jobs
        BY <3>1 DEF ScheduleNext, Handled
      <4> QED BY <3>1, <4>1 DEF ScheduleNext, Add
    <3>2. CASE ScheduleErrs(w)
      <4>1. cand[w] \in Jobs
        BY <3>2 DEF ScheduleErrs, Handled
      <4> QED BY <3>2, <4>1 DEF ScheduleErrs
    <3>3. ASSUME \E k \in Kinds : BootstrapErrs(w, k) \/ \E j \in Jobs : Bootstrap(w, k, j)
          PROVE  kind' \in [Jobs -> Kinds \cup {"none"}]
      BY <3>3 DEF BootstrapErrs, Bootstrap, Add
    <3>4. CASE QueueStep(w) \/ HandlerEnds(w) \/ BootstrapSkips(w) \/ Detect(w) \/ Digest(w)
      BY <3>4 DEF QueueStep, HandlerEnds, BootstrapSkips, chainVars, Detect, Digest
    <3> QED BY <1>2, <3>1, <3>2, <3>3, <3>4
  <2>4. owes' \in [Workers -> SUBSET Kinds] /\ begun' \in [Kinds -> Nat]
    <3>1. CASE QueueStep(w) \/ HandlerEnds(w)
      BY <3>1 DEF QueueStep, HandlerEnds, chainVars
    <3>2. CASE BootstrapSkips(w) \/ Detect(w) \/ Digest(w) \/ ScheduleErrs(w) \/ \E j \in Jobs : ScheduleNext(w, j)
      BY <3>2 DEF BootstrapSkips, Detect, Digest, ScheduleErrs, ScheduleNext
    <3>3. ASSUME \E k \in Kinds : BootstrapErrs(w, k) \/ \E j \in Jobs : Bootstrap(w, k, j)
          PROVE  owes' \in [Workers -> SUBSET Kinds] /\ begun' \in [Kinds -> Nat]
      BY <3>3 DEF BootstrapErrs, Bootstrap
    <3> QED BY <1>2, <3>1, <3>2, <3>3
  <2> QED BY <2>1, <2>2, <2>3, <2>4
<1> QED BY <1>1, <1>2 DEF SNext

LEMMA HandledKept ==
  ASSUME ChainInv, NEW w \in Workers,
         \/ QueueStep(w) \/ Detect(w) \/ Digest(w) \/ HandlerEnds(w) \/ ScheduleErrs(w) \/ BootstrapSkips(w)
         \/ \E j \in Jobs : ScheduleNext(w, j)
         \/ \E k \in Kinds : BootstrapErrs(w, k) \/ \E j \in Jobs : Bootstrap(w, k, j)
  PROVE  Handled'
<1> USE DEF ChainInv, ChainTypes, TypeOK, tickVars, rowVars
<1> DEFINE Calm == UNCHANGED <<phase, cand, step>>
<1>1. Calm => Handled'
  BY DEF Handled
<1>2. Idle(w) /\ step' \in {step, [step EXCEPT ![w] = "body"]} /\ (phase[w] = "handling" => step' # step) => Handled'
  BY DEF Handled, Idle
<1>3. \A from, to : Goto(w, from, to) /\ step' = step /\ from # "handling" /\ from \notin {"idle", "find"} /\ to # "handling" => Handled'
  BY DEF Handled, Goto
<1>4. CASE Detect(w) \/ Digest(w) \/ \E j \in Jobs : ScheduleNext(w, j)
  <2>1. UNCHANGED <<phase, cand>> /\ phase[w] = "handling" /\ step' \in {step} \cup {[step EXCEPT ![w] = x] : x \in Steps}
    BY <1>4 DEF Detect, Digest, ScheduleNext, Add, Enqueue, At, Handles, Steps, vars
  <2> QED BY <2>1 DEF Handled
<1>5. CASE ScheduleErrs(w)
  <2>1. UNCHANGED <<phase, cand>> /\ phase[w] = "handling" /\ step' = [step EXCEPT ![w] = "throw"]
    BY <1>5 DEF ScheduleErrs, At
  <2> QED BY <2>1 DEF Handled
<1>6. CASE HandlerEnds(w)
  <2>1. phase' \in {[phase EXCEPT ![w] = "succeeded"], [phase EXCEPT ![w] = "failed"]} /\ phase[w] = "handling"
        /\ cand' = cand /\ step' = [step EXCEPT ![w] = "body"]
    BY <1>6 DEF HandlerEnds, HandlerResolves, HandlerFails, Goto
  <2> QED BY <2>1 DEF Handled
<1>7. ASSUME BootstrapSkips(w) \/ \E k \in Kinds : BootstrapErrs(w, k) \/ \E j \in Jobs : Bootstrap(w, k, j)
      PROVE  Handled'
  BY <1>1, <1>7 DEF BootstrapSkips, BootstrapErrs, Bootstrap, Add, Enqueue, vars
<1>8. CASE TickBegin(w) /\ UNCHANGED chainVars
  BY <1>8 DEF Handled, TickBegin, Goto, chainVars
<1>9. CASE Find(w) /\ UNCHANGED chainVars
  BY <1>9 DEF Handled, Find, Idle, Candidates, chainVars
<1>10. CASE Claim(w) /\ UNCHANGED chainVars
  BY <1>10 DEF Handled, Claim, Idle, Goto, chainVars
<1>11. CASE Dispatch(w) /\ UNCHANGED chainVars
  BY <1>11 DEF Handled, Dispatch, Goto, chainVars
<1>12. CASE (FinishDone(w) \/ FinishFailed(w) \/ ClaimErrs(w) \/ FailedErrs(w)) /\ UNCHANGED chainVars
  <2>1. Idle(w) /\ step' = step /\ phase[w] # "handling"
    BY <1>12 DEF FinishDone, FinishFailed, ClaimErrs, FailedErrs, chainVars
  <2> QED BY <1>2, <2>1
<1>13. CASE DoneErrs(w) /\ UNCHANGED chainVars
  BY <1>13 DEF Handled, DoneErrs, Goto, chainVars
<1>14. CASE (Shutdown(w) \/ ShutdownReturns(w)) /\ UNCHANGED chainVars
  BY <1>1, <1>14 DEF Shutdown, ShutdownReturns, chainVars
<1>15. CASE (Crash(w) \/ Exit(w)) /\ step' = [step EXCEPT ![w] = "body"]
  BY <1>15 DEF Handled, Crash, Exit, Gone, Idle
<1>16. CASE Boot(w) /\ step' = step
  BY <1>1, <1>16 DEF Boot
<1>17. QueueStep(w) => Handled'
  BY <1>8, <1>9, <1>10, <1>11, <1>12, <1>13, <1>14, <1>15, <1>16 DEF QueueStep
<1> QED BY <1>4, <1>5, <1>6, <1>7, <1>17

-----------------------------------------------------------------------------
\* The tokens, step by step.

\* As many chains or fewer, and as many boots.
LEMMA FewerAreFew ==
  ASSUME Few, \A k \in Kinds : Tokens(k)' \subseteq Tokens(k), begun' = begun,
         (\A j \in Jobs : attempts'[j] = 0) => \A j \in Jobs : attempts[j] = 0,
         begun \in [Kinds -> Nat]
  PROVE  Few'
<1>1. ASSUME \A j \in Jobs : attempts'[j] = 0, NEW k \in Kinds
      PROVE  IsFiniteSet(Tokens(k)') /\ Cardinality(Tokens(k)') <= begun'[k]
  <2>1. IsFiniteSet(Tokens(k)) /\ Cardinality(Tokens(k)) <= begun[k]
    BY <1>1 DEF Few
  <2>2. IsFiniteSet(Tokens(k)') /\ Cardinality(Tokens(k)') <= Cardinality(Tokens(k))
    BY <2>1, FS_Subset
  <2>3. Cardinality(Tokens(k)) \in Nat /\ Cardinality(Tokens(k)') \in Nat
    BY <2>1, <2>2, FS_CardinalityType
  <2> QED BY <2>1, <2>2, <2>3
<1> QED BY <1>1 DEF Few

\* A step that changes no token, and ends no boot's debt.
Same ==
  /\ \A j \in Jobs : Token(j)' <=> Token(j)
  /\ UNCHANGED <<kind, begun>>
  /\ (\A j \in Jobs : attempts'[j] = 0) => \A j \in Jobs : attempts[j] = 0

LEMMA SameKeeps ==
  ASSUME Few, Alive, Same, begun \in [Kinds -> Nat]
  PROVE  /\ Few'
         /\ (Begun("detection")' => Begun("detection")) => Alive'
<1>1. \A k : Tokens(k)' = Tokens(k)
  BY DEF Same, Tokens
<1>2. Few'
  BY <1>1, FewerAreFew DEF Same
<1> QED BY <1>1, <1>2 DEF Alive

\* A step of process w that changes neither what it carries nor a row that waits.
LEMMA Unmoved ==
  ASSUME NEW w \in Workers, UNCHANGED <<kind, begun, attempts>>,
         \A j \in Jobs : status'[j] = "pending" <=> status[j] = "pending",
         \A v \in Workers : v # w => phase'[v] = phase[v] /\ cand'[v] = cand[v] /\ step'[v] = step[v],
         Carries(w)' <=> Carries(w), Carries(w) => cand'[w] = cand[w]
  PROVE  Same
BY DEF Same, Token, Carries

\* Where no call fails, a step of the queue moves a token from a row that waits
\* to the process that claims it, or drops it with a process that goes down.
LEMMA QueueStepTokens ==
  ASSUME ChainInv, faults = 0, faults' = 0, NEW w \in Workers, QueueStep(w)
  PROVE  Alive' /\ Few'
<1> USE DEF ChainInv, ChainTypes, TypeOK, tickVars, rowVars
<1>1. Alive /\ Few
  OBVIOUS
<1>2. ~ (ClaimErrs(w) \/ DoneErrs(w) \/ FailedErrs(w))
  BY DEF ClaimErrs, DoneErrs, FailedErrs, Fault
<1>3. UNCHANGED <<mode, owes>> => (Begun("detection")' => Begun("detection"))
  BY DEF Begun
<1>4. \A v \in Workers : mode'[v] # "polling" => ~ Begun("detection")'
  BY DEF Begun
<1>5. CASE TickBegin(w) /\ UNCHANGED chainVars
  <2>1. Same
    BY <1>5, Unmoved DEF TickBegin, Goto, Carries, history, bounds, chainVars
  <2> QED BY <1>1, <1>3, <1>5, <2>1, SameKeeps DEF TickBegin, chainVars
<1>6. CASE Find(w) /\ UNCHANGED chainVars
  <2>1. Same
    BY <1>6, Unmoved DEF Find, Idle, Carries, chainVars
  <2> QED BY <1>1, <1>3, <1>6, <2>1, SameKeeps DEF Find, chainVars
<1>7. CASE Claim(w) /\ UNCHANGED chainVars
  <2>1. phase[w] = "claim" /\ cand[w] \in Jobs /\ step[w] = "body" /\ ~ Carries(w)
    BY <1>7 DEF Claim, Handled, Carries
  <2>2. CASE status[cand[w]] # "pending"
    <3>1. Same
      BY <1>7, <2>1, <2>2, Unmoved DEF Claim, Idle, Goto, Carries, chainVars
    <3> QED BY <1>1, <1>3, <1>7, <3>1, SameKeeps DEF Claim, chainVars
  <2>3. CASE status[cand[w]] = "pending"
    <3>1. /\ status' = [status EXCEPT ![cand[w]] = "running"] /\ phase' = [phase EXCEPT ![w] = "claimed"]
          /\ UNCHANGED <<cand, step, kind, begun, attempts, mode, owes>>
      BY <1>7, <2>3 DEF Claim, Goto, chainVars
    <3>2. Carries(w)' /\ \A v \in Workers : v # w => (Carries(v)' <=> Carries(v))
      BY <2>1, <3>1 DEF Carries
    <3>3. Token(cand[w])' /\ Token(cand[w])
      BY <2>3, <3>1, <3>2 DEF Token
    <3>4. \A j \in Jobs : j # cand[w] => (Token(j)' <=> Token(j))
      BY <2>1, <3>1, <3>2 DEF Token
    <3>5. Same
      BY <3>1, <3>3, <3>4 DEF Same
    <3> QED BY <1>1, <1>3, <3>1, <3>5, SameKeeps
  <2> QED BY <2>2, <2>3
<1>8. CASE Dispatch(w) /\ UNCHANGED chainVars
  <2>1. Same
    BY <1>8, Unmoved DEF Dispatch, Goto, Carries, Handled, bounds, chainVars
  <2> QED BY <1>1, <1>3, <1>8, <2>1, SameKeeps DEF Dispatch, chainVars
<1>9. CASE FinishDone(w) /\ UNCHANGED chainVars
  <2>1. Owns(w, cand[w]) /\ cand[w] \in Jobs
    BY <1>9 DEF FinishDone, Owns, InFlight, Handled
  <2>2. status[cand[w]] # "pending"
    BY <2>1 DEF LockInv, HeldIsTaken
  <2>3. Same
    BY <1>9, <2>1, <2>2, Unmoved DEF FinishDone, RecordDone, Idle, Carries, chainVars
  <2> QED BY <1>1, <1>3, <1>9, <2>3, SameKeeps DEF FinishDone, chainVars
<1>10. CASE FinishFailed(w) /\ UNCHANGED chainVars
  <2>1. Owns(w, cand[w]) /\ cand[w] \in Jobs /\ ~ Carries(w) /\ seen[w] \in Nat
    BY <1>10 DEF FinishFailed, Owns, InFlight, Handled, Carries
  <2>2. status[cand[w]] # "pending"
    BY <2>1 DEF LockInv, HeldIsTaken
  <2>3. attempts'[cand[w]] # 0
    BY <1>10, <2>1 DEF FinishFailed, MarkFailed
  <2>4. Few'
    BY <2>1, <2>3 DEF Few
  <2>5. \A j \in Jobs : status[j] = "pending" => status'[j] = "pending"
    BY <1>10, <2>1, <2>2 DEF FinishFailed, MarkFailed
  <2>6. /\ \A v \in Workers : v # w => phase'[v] = phase[v] /\ cand'[v] = cand[v]
        /\ UNCHANGED <<mode, owes, step, kind>>
    BY <1>10 DEF FinishFailed, Idle, chainVars
  <2>7. \A j \in Jobs : Token(j) => Token(j)'
    BY <2>1, <2>5, <2>6 DEF Token, Carries
  <2> QED BY <1>1, <1>3, <2>4, <2>6, <2>7 DEF Alive, Tokens
<1>11. CASE Shutdown(w) /\ UNCHANGED chainVars
  <2>1. Same /\ mode'[w] # "polling"
    BY <1>11, Unmoved DEF Shutdown, Carries, chainVars
  <2> QED BY <1>1, <1>4, <2>1, SameKeeps
<1>12. CASE ShutdownReturns(w) /\ UNCHANGED chainVars
  <2>1. Same /\ mode'[w] # "polling"
    BY <1>12, Unmoved DEF ShutdownReturns, Carries, bounds, chainVars
  <2> QED BY <1>1, <1>4, <2>1, SameKeeps
<1>13. CASE (Crash(w) \/ Exit(w)) /\ step' = [step EXCEPT ![w] = "body"] /\ UNCHANGED <<kind, begun>>
  <2>1. /\ phase' = [phase EXCEPT ![w] = "idle"] /\ cand' = [cand EXCEPT ![w] = None]
        /\ UNCHANGED <<status, attempts, kind, begun>> /\ mode'[w] # "polling"
    BY <1>13 DEF Crash, Exit, Gone, Idle
  <2>2. \A v \in Workers : Carries(v)' => Carries(v) /\ cand'[v] = cand[v]
    BY <1>13, <2>1 DEF Carries
  <2>3. \A k : Tokens(k)' \subseteq Tokens(k)
    BY <2>1, <2>2 DEF Tokens, Token
  <2>4. Few'
    BY <1>1, <2>1, <2>3, FewerAreFew
  <2> QED BY <1>4, <2>1, <2>4 DEF Alive
<1>14. CASE Boot(w) /\ owes' = [owes EXCEPT ![w] = Kinds] /\ UNCHANGED <<kind, step, begun>>
  <2>1. Same
    BY <1>14, Unmoved DEF Boot, Carries, bounds
  <2>2. ~ Begun("detection")'
    BY <1>14 DEF Begun, Kinds
  <2> QED BY <1>1, <2>1, <2>2, SameKeeps
<1> QED BY <1>2, <1>5, <1>6, <1>7, <1>8, <1>9, <1>10, <1>11, <1>12, <1>13, <1>14 DEF QueueStep

LEMMA OneMore ==
  ASSUME NEW S, NEW x, IsFiniteSet(S), NEW n \in Nat, Cardinality(S) <= n
  PROVE  IsFiniteSet(S \cup {x}) /\ Cardinality(S \cup {x}) <= n + 1
<1>1. Cardinality(S) \in Nat
  BY FS_CardinalityType
<1>2. IsFiniteSet(S \cup {x}) /\ Cardinality(S \cup {x}) = IF x \in S THEN Cardinality(S) ELSE Cardinality(S) + 1
  BY FS_AddElement
<1> QED BY <1>1, <1>2

LEMMA OneForOne ==
  ASSUME NEW S, NEW x \in S, NEW y, IsFiniteSet(S), NEW n \in Nat, Cardinality(S) <= n
  PROVE  IsFiniteSet((S \ {x}) \cup {y}) /\ Cardinality((S \ {x}) \cup {y}) <= n
<1>1. Cardinality(S) \in Nat
  BY FS_CardinalityType
<1>2. IsFiniteSet(S \ {x}) /\ Cardinality(S \ {x}) = Cardinality(S) - 1
  BY FS_RemoveElement
<1>3. Cardinality(S \ {x}) \in Nat /\ n - 1 \in Nat /\ Cardinality(S \ {x}) <= n - 1
  BY <1>1, <1>2, FS_CardinalityType
<1>4. IsFiniteSet((S \ {x}) \cup {y}) /\ Cardinality((S \ {x}) \cup {y}) <= (n - 1) + 1
  BY <1>2, <1>3, OneMore
<1> QED BY <1>4

\* A boot's row is a token more, and one boot more that began a chain.
LEMMA BootstrapTokens ==
  ASSUME ChainInv, faults = 0, NEW w \in Workers, NEW k \in Kinds, NEW j \in Jobs, Bootstrap(w, k, j)
  PROVE  Alive' /\ Few'
<1> USE DEF ChainInv, ChainTypes, TypeOK, tickVars, rowVars
<1>1. /\ status[j] = "absent" /\ status' = [status EXCEPT ![j] = "pending"] /\ kind' = [kind EXCEPT ![j] = k]
      /\ UNCHANGED <<attempts, mode, phase, cand, step>>
      /\ owes' = [owes EXCEPT ![w] = @ \ {k}] /\ begun' = [begun EXCEPT ![k] = @ + 1]
  BY DEF Bootstrap, Add, Enqueue
<1>2. \A i \in Jobs : i # j => (Token(i)' <=> Token(i))
  BY <1>1 DEF Token, Carries
<1>3. Token(j)' /\ ~ Token(j)
  <2>1. \A v \in Workers : ~ Owns(v, j)
    BY <1>1 DEF LockInv, HeldIsTaken
  <2> QED BY <1>1, <2>1 DEF Token, Carries, Owns, InFlight
<1>4. Tokens(k)' = Tokens(k) \cup {j} /\ \A i \in Kinds : i # k => Tokens(i)' = Tokens(i)
  BY <1>1, <1>2, <1>3 DEF Tokens
<1>5. Alive'
  BY <1>1, <1>4 DEF Alive, Begun, Kinds
<1>6. ASSUME \A i \in Jobs : attempts'[i] = 0, NEW i \in Kinds
      PROVE  IsFiniteSet(Tokens(i)') /\ Cardinality(Tokens(i)') <= begun'[i]
  <2>1. IsFiniteSet(Tokens(i)) /\ Cardinality(Tokens(i)) <= begun[i]
    BY <1>1, <1>6 DEF Few
  <2>2. CASE i # k
    BY <1>1, <1>4, <2>1, <2>2
  <2>3. CASE i = k
    <3>1. begun'[k] = begun[k] + 1 /\ begun[k] \in Nat
      BY <1>1
    <3>2. /\ IsFiniteSet(Tokens(k) \cup {j})
          /\ Cardinality(Tokens(k) \cup {j}) <= begun[k] + 1
      BY <2>1, <2>3, <3>1, OneMore
    <3> QED BY <1>4, <2>3, <3>1, <3>2
  <2> QED BY <2>2, <2>3
<1> QED BY <1>5, <1>6 DEF Few

\* The next row takes over the token of the row whose run enqueues it.
LEMMA ScheduleNextTokens ==
  ASSUME ChainInv, faults = 0, NEW w \in Workers, NEW j \in Jobs, ScheduleNext(w, j)
  PROVE  Alive' /\ Few'
<1> USE DEF ChainInv, ChainTypes, TypeOK, tickVars, rowVars
<1> DEFINE i == cand[w]
           k == kind[cand[w]]
<1>1. /\ status[j] = "absent" /\ status' = [status EXCEPT ![j] = "pending"] /\ kind' = [kind EXCEPT ![j] = k]
      /\ UNCHANGED <<attempts, mode, phase, cand, owes, begun>>
      /\ phase[w] = "handling" /\ step[w] \in {"next", "rethrow"} /\ i \in Jobs
      /\ step' \in {[step EXCEPT ![w] = "return"], [step EXCEPT ![w] = "throw"]}
  BY DEF ScheduleNext, Add, Enqueue, At, Handled
<1>2. Carries(w) /\ ~ Carries(w)' /\ \A v \in Workers : v # w => (Carries(v)' <=> Carries(v))
  BY <1>1 DEF Carries
<1>3. \A v \in Workers : Carries(v) => Owns(v, cand[v])
  BY DEF Carries, Owns, InFlight
<1>4. i # j /\ status[i] # "pending"
  BY <1>1, <1>2, <1>3 DEF LockInv, HeldIsTaken
<1>5. \A v \in Workers : v # w /\ Carries(v) => cand[v] # i
  BY <1>1, <1>2, <1>3 DEF LockInv, OneOwner, Owns
<1>6. Token(i) /\ ~ Token(i)'
  BY <1>1, <1>2, <1>4, <1>5 DEF Token
<1>7. Token(j)' /\ ~ Token(j)
  BY <1>1, <1>3 DEF Token, LockInv, HeldIsTaken, Owns
<1>8. \A x \in Jobs : x # i /\ x # j => (Token(x)' <=> Token(x))
  BY <1>1, <1>2 DEF Token
<1>9. \A c : c # k => Tokens(c)' = Tokens(c)
  BY <1>1, <1>6, <1>7, <1>8 DEF Tokens
<1>10. \A c : c = k => Tokens(c)' = (Tokens(c) \ {i}) \cup {j} /\ i \in Tokens(c)
  BY <1>1, <1>4, <1>6, <1>7, <1>8 DEF Tokens
<1>11. Alive'
  <2>1. Begun("detection")' => Begun("detection")
    BY <1>1 DEF Begun
  <2>2. Begun("detection") => Tokens("detection") # {}
    BY DEF Alive
  <2>3. "detection" = k => Tokens("detection")' # {}
    BY <1>10
  <2>4. "detection" # k => Tokens("detection")' = Tokens("detection")
    BY <1>9
  <2> HIDE DEF k
  <2> QED BY <2>1, <2>2, <2>3, <2>4 DEF Alive
<1>12. ASSUME \A x \in Jobs : attempts'[x] = 0, NEW c \in Kinds
       PROVE  IsFiniteSet(Tokens(c)') /\ Cardinality(Tokens(c)') <= begun'[c]
  <2>1. IsFiniteSet(Tokens(c)) /\ Cardinality(Tokens(c)) <= begun[c]
    BY <1>1, <1>12 DEF Few
  <2>2. CASE c # k
    <3>1. Tokens(c)' = Tokens(c)
      BY <1>9, <2>2
    <3> QED BY <1>1, <2>1, <3>1
  <2>3. CASE c = k
    <3>1. begun'[c] = begun[c] /\ begun[c] \in Nat
      BY <1>1
    <3>2. /\ IsFiniteSet((Tokens(c) \ {i}) \cup {j})
          /\ Cardinality((Tokens(c) \ {i}) \cup {j}) <= begun[c]
      <4>1. i \in Tokens(c)
        BY <1>10, <2>3
      <4> HIDE DEF i, k
      <4> QED BY <2>1, <3>1, <4>1, OneForOne
    <3> QED BY <1>10, <2>3, <3>1, <3>2
  <2> QED BY <2>2, <2>3
<1> QED BY <1>11, <1>12 DEF Few

\* What the handlers do else moves no token but one that the digest drops.
LEMMA HandlerTokens ==
  ASSUME ChainInv, faults = 0, NEW w \in Workers,
         Detect(w) \/ Digest(w) \/ HandlerEnds(w) \/ BootstrapSkips(w)
  PROVE  Alive' /\ Few'
<1> USE DEF ChainInv, ChainTypes, TypeOK, tickVars, rowVars
<1>1. Alive /\ Few
  OBVIOUS
<1>2. UNCHANGED <<mode, owes>> => (Begun("detection")' => Begun("detection"))
  BY DEF Begun
<1>3. CASE Detect(w)
  <2>1. Same
    BY <1>3, Unmoved DEF Detect, Handles, At, Carries, vars
  <2> QED BY <1>1, <1>2, <1>3, <2>1, SameKeeps DEF Detect, vars
<1>4. CASE Digest(w)
  <2>1. /\ UNCHANGED <<status, attempts, mode, phase, cand, owes, kind, begun>>
        /\ phase[w] = "handling" /\ kind[cand[w]] = "digest" /\ step[w] = "body" /\ cand[w] \in Jobs
        /\ step' \in {[step EXCEPT ![w] = x] : x \in {"return", "next", "throw"}}
    BY <1>4 DEF Digest, Handles, At, vars, Handled
  <2>2. \A v \in Workers : (v # w => (Carries(v)' <=> Carries(v))) /\ (Carries(v)' => Carries(v))
    BY <2>1 DEF Carries
  <2>3. \A j \in Jobs : (j # cand[w] => (Token(j)' <=> Token(j))) /\ (Token(j)' => Token(j))
    BY <2>1, <2>2 DEF Token
  <2>4. \A k : Tokens(k)' \subseteq Tokens(k)
    BY <2>1, <2>3 DEF Tokens
  <2>5. Tokens("detection")' = Tokens("detection")
    BY <2>1, <2>3 DEF Tokens
  <2>6. Few'
    BY <1>1, <2>1, <2>4, FewerAreFew
  <2> QED BY <1>1, <1>2, <2>1, <2>5, <2>6 DEF Alive
<1>5. CASE HandlerEnds(w)
  <2>1. /\ UNCHANGED <<status, attempts, mode, cand, owes, kind, begun>>
        /\ phase[w] = "handling" /\ step[w] \in {"return", "throw"} /\ step' = [step EXCEPT ![w] = "body"]
        /\ phase' \in {[phase EXCEPT ![w] = "succeeded"], [phase EXCEPT ![w] = "failed"]}
    BY <1>5 DEF HandlerEnds, HandlerResolves, HandlerFails, Goto
  <2>2. Same
    BY <2>1, Unmoved DEF Carries
  <2> QED BY <1>1, <1>2, <2>1, <2>2, SameKeeps
<1>6. CASE BootstrapSkips(w)
  <2>1. /\ UNCHANGED <<status, attempts, mode, phase, cand, step, kind, begun>>
        /\ owes' = [owes EXCEPT ![w] = @ \ {"digest"}]
    BY <1>6 DEF BootstrapSkips, vars
  <2>2. Same
    BY <2>1, Unmoved DEF Carries
  <2>3. Begun("detection")' => Begun("detection")
    BY <2>1 DEF Begun
  <2> QED BY <1>1, <2>2, <2>3, SameKeeps
<1> QED BY <1>3, <1>4, <1>5, <1>6

LEMMA ChainStep == ChainInv /\ [SNext]_allVars => ChainInv'
<1> SUFFICES ASSUME ChainInv, [SNext]_allVars
             PROVE  ChainInv'
  OBVIOUS
<1>1. ChainTypes' /\ LockInv'
  BY ChainTypesKept
<1>2. CASE UNCHANGED allVars
  <2>1. Handled' /\ (faults' = 0 => Alive' /\ Few')
    BY <1>2 DEF ChainInv, Handled, Alive, Few, Tokens, Token, Carries, Begun,
                allVars, vars, chainVars, rowVars, tickVars, bounds
  <2> QED BY <1>1, <2>1 DEF ChainInv
<1>3. ASSUME NEW w \in Workers,
         \/ QueueStep(w) \/ Detect(w) \/ Digest(w) \/ HandlerEnds(w) \/ ScheduleErrs(w) \/ BootstrapSkips(w)
         \/ \E j \in Jobs : ScheduleNext(w, j)
         \/ \E k \in Kinds : BootstrapErrs(w, k) \/ \E j \in Jobs : Bootstrap(w, k, j)
      PROVE  ChainInv'
  <2>1. Handled'
    BY <1>3, HandledKept
  <2>2. ASSUME faults' = 0
        PROVE  Alive' /\ Few'
    <3>1. faults \in Nat
      BY DEF ChainInv, ChainTypes, TypeOK
    <3>2. ~ ScheduleErrs(w) /\ \A k \in Kinds : ~ BootstrapErrs(w, k)
      BY <2>2, <3>1 DEF ScheduleErrs, BootstrapErrs, Fault
    <3>3. faults = 0
      <4>1. QueueStep(w) => faults' \in {faults, faults + 1}
        BY DEF QueueStep, TickBegin, Find, Claim, Dispatch, FinishDone, FinishFailed, ClaimErrs, DoneErrs,
               FailedErrs, Fault, Shutdown, ShutdownReturns, Crash, Exit, Gone, Boot, bounds
      <4>2. Detect(w) \/ Digest(w) \/ HandlerEnds(w) \/ BootstrapSkips(w) => faults' = faults
        BY DEF Detect, Digest, HandlerEnds, BootstrapSkips, HandlerResolves, HandlerFails, vars, bounds
      <4>3. (\E j \in Jobs : ScheduleNext(w, j)) \/ (\E k \in Kinds, j \in Jobs : Bootstrap(w, k, j)) => faults' = faults
        BY DEF ScheduleNext, Bootstrap, Add, Enqueue, bounds
      <4> QED BY <1>3, <2>2, <3>1, <3>2, <4>1, <4>2, <4>3
    <3> QED BY <1>3, <2>2, <3>2, <3>3, QueueStepTokens, BootstrapTokens, ScheduleNextTokens, HandlerTokens
  <2> QED BY <1>1, <2>1, <2>2 DEF ChainInv
<1> QED BY <1>2, <1>3 DEF SNext

LEMMA InitChain == SInit => ChainInv
<1> SUFFICES ASSUME SInit
             PROVE  ChainInv
  OBVIOUS
<1>1. TypeOK /\ LockInv
  BY InitType, InitLock DEF SInit
<1>2. ChainTypes /\ Handled
  BY <1>1 DEF SInit, Init, ChainTypes, Handled, Kinds, Steps
<1>3. \A k \in Kinds : Tokens(k) = {}
  BY DEF SInit, Init, Tokens, Token, Carries, Kinds
<1>4. ASSUME NEW k \in Kinds
      PROVE  IsFiniteSet(Tokens(k)) /\ Cardinality(Tokens(k)) <= begun[k]
  <2>1. IsFiniteSet({}) /\ Cardinality({}) = 0
    BY FS_EmptySet
  <2>2. begun[k] = 0
    BY DEF SInit
  <2> QED BY <1>3, <2>1, <2>2
<1>5. ~ Begun("detection")
  BY SchedulesAssumption DEF SInit, Init, Begun, Kinds
<1>6. Alive /\ Few
  BY <1>4, <1>5 DEF Alive, Few
<1> QED BY <1>1, <1>2, <1>6 DEF ChainInv

\* THEOREM.  The next pass of detection is never lost and no chain doubles: the
\* finally at detection.ts:157 and the bootstrap at index.ts:100-113.  A row that
\* waits is a token, and a token is a row that waits or one a process runs.
THEOREM ChainsDoGoOn == SSpec => []ChainsGoOn
<1>1. ChainInv => ChainsGoOn
  <2> SUFFICES ASSUME ChainInv, faults = 0
               PROVE  /\ Begun("detection") => Pending("detection") # {} \/ Underway("detection")
                      /\ (\A j \in Jobs : attempts[j] = 0) =>
                           \A k \in Kinds : Cardinality(Pending(k)) <= begun[k]
    BY DEF ChainsGoOn
  <2>1. ASSUME Begun("detection")
        PROVE  Pending("detection") # {} \/ Underway("detection")
    <3>1. PICK j \in Jobs : kind[j] = "detection" /\ Token(j)
      BY <2>1 DEF ChainInv, Alive, Tokens
    <3>2. CASE status[j] = "pending"
      BY <3>1, <3>2 DEF Pending
    <3>3. CASE \E w \in Workers : cand[w] = j /\ Carries(w)
      BY <3>1, <3>3, JobQueueAssumption DEF Underway, Carries
    <3> QED BY <3>1, <3>2, <3>3 DEF Token
  <2>2. ASSUME \A j \in Jobs : attempts[j] = 0, NEW k \in Kinds
        PROVE  Cardinality(Pending(k)) <= begun[k]
    <3>1. Pending(k) \subseteq Tokens(k)
      BY DEF Pending, Tokens, Token
    <3>2. IsFiniteSet(Tokens(k)) /\ Cardinality(Tokens(k)) <= begun[k]
      BY <2>2 DEF ChainInv, Few
    <3>3. IsFiniteSet(Pending(k)) /\ Cardinality(Pending(k)) <= Cardinality(Tokens(k))
      BY <3>1, <3>2, FS_Subset
    <3>4. Cardinality(Pending(k)) \in Nat /\ Cardinality(Tokens(k)) \in Nat /\ begun[k] \in Nat
      BY <3>2, <3>3, FS_CardinalityType DEF ChainInv, ChainTypes
    <3> QED BY <3>2, <3>3, <3>4
  <2> QED BY <2>1, <2>2
<1> QED BY <1>1, InitChain, ChainStep, PTL DEF SSpec

\* THEOREM.  One process at most holds a row, whatever the handlers enqueue while
\* they hold theirs: the claim of db-adapter.ts:11-18, as the schedules use it.
THEOREM SchedulesKeepTheLock == SSpec => []OneOwner
<1>1. ChainInv => OneOwner
  BY DEF ChainInv, LockInv
<1> QED BY <1>1, InitChain, ChainStep, PTL DEF SSpec
=============================================================================
