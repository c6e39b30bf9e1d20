\* Two API processes and the rows of both schedules: a failing call, a crash or a stop.
CONSTANTS
  w1 = w1
  w2 = w2
  r1 = r1
  r2 = r2
  r3 = r3
  None = None
  Jobs = {r1, r2, r3}
  Runnable = {r1, r2, r3}
  Workers = {w1, w2}
  MaxAttempts = 2
  RetryDelay <- MCRetryDelay
  EnqueueDelay = {0}
  Interval = 0
  First = 0
  Horizon = 0
  MaxCrashes = 1
  MaxFaults = 1
  MaxStops = 1
SPECIFICATION SSpec
INVARIANTS OneOwner ChainsGoOn
SYMMETRY MCSymmetry
CONSTRAINT MCConstraint
