\* Two operations at once, one mishap, two files, a release that does not boot, a trial of no days and a licence that lapses.
CONSTANTS
  NoKey = NoKey
  NoFile = NoFile
  NoVersion = NoVersion
  o1 = o1
  o2 = o2
  Ops = {o1, o2}
  Keys <- MCKeys
  TrialDays = 0
  WarnDays = 1
  GraceDays = 0
  Broken = {1}
  MaxDay = 1
  MaxVersion = 2
  MaxMishaps = 1
  MaxGen = 2
  MaxOps = 2
SPECIFICATION DesktopSpec
INVARIANTS ColdCopy DataBelongs GatesHold
SYMMETRY MCSymmetry
