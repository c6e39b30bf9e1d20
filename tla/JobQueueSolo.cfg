\* One API process, as shipped: two rows, one of them not dispatchable; a failing call, a crash and a stop.
CONSTANTS
  w1 = w1
  j1 = j1
  j2 = j2
  Jobs = {j1, j2}
  Runnable = {j1}
  Workers = {w1}
  None = None
  MaxAttempts = 3
  RetryDelay <- MCRetryDelay
  EnqueueDelay <- MCDelays
  Horizon = 3
  MaxCrashes = 1
  MaxFaults = 1
  MaxStops = 1
SPECIFICATION FairSpec
INVARIANTS OutcomeEarned
PROPERTIES ImplementsLedger EverySettled
