\* One pass at a time and people who acknowledge, snooze and bulk-acknowledge two alerts; one failing call or delivery.
CONSTANTS
  p1 = p1
  p2 = p2
  d1 = d1
  None = None
  Problems = {p1, p2}
  Notifying = {p1}
  Passes = {d1}
  Suppress = 2
  Snooze = 1
  Horizon = 2
  MaxFaults = 1
SPECIFICATION FairSpec
INVARIANTS OneNotePerActivation
PROPERTIES AckYieldsOnlyToStaleRead 
