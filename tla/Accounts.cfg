\* Two administrators of one organization and a person who may join; three disturbances of any kind.
CONSTANTS
  a = a
  b = b
  c = c
  r1 = r1
  r2 = r2
  Persons = {a, b, c}
  Founders <- MCTwoAdmins
  Requests = {r1, r2}
  PageSize = 1
  None = None
  MaxStimuli = 3
SPECIFICATION FairSpec
INVARIANTS RowsMirrorClerk
PROPERTIES LastAdminFallsToStaleRequests DueIsFinal PurgeCompletes
CHECK_DEADLOCK FALSE
