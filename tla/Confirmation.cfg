\* Two parse calls at once, an original and two acknowledgments of it, one parse again, one run of a backfill script, one change of our ids.
CONSTANTS
  out = out
  in = in
  ack1 = ack1
  ack2 = ack2
  k = k
  p1 = p1
  p2 = p2
  None = None
  Originals = {out}
  Acks = {ack1, ack2}
  Sent = {out}
  Flawed = {ack1}
  Key <- MCKey
  Covers <- MCCovers
  Parsers = {p1, p2}
  MaxReparses = 1
  MaxScripts = 1
  MaxSettings = 1
SPECIFICATION Spec
INVARIANTS ConfirmedByFirst BackfillStitches
SYMMETRY MCSymmetry
CHECK_DEADLOCK FALSE
