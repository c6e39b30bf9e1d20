\* One drop folder and one upload at a time: an interchange and a file that is not X12, each dropped and posted; a crash and a failing call.
CONSTANTS
  a = a
  b = b
  c = c
  d = d
  isa1 = isa1
  n1 = n1
  n2 = n2
  n3 = n3
  ch = ch
  up = up
  i1 = i1
  i2 = i2
  i3 = i3
  Files = {a, c}
  Control <- MCControl
  Class <- MCClass
  Good <- MCGood
  NameOf <- MCNameOf
  Channels = {ch}
  Uploads = {up}
  None = None
  MaxTries = 2
  Ids = {i1, i2, i3}
  MaxGiven <- MCGiven
  MaxCrashes = 1
  MaxFaults = 1
SPECIFICATION FairSpec
INVARIANTS RowHasBytes SuccessIsRecorded StoredAsDelivered
PROPERTIES TakenUp
CHECK_DEADLOCK FALSE
