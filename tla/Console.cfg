\* Two tabs, hosted or with the wizard first; two partner ids, one mishap.
CONSTANTS
  NoRow = NoRow
  NewId = NewId
  None = None
  NoFolder = NoFolder
  NoWizard = NoWizard
  NoPatch = NoPatch
  NoChannel = NoChannel
  NoEnsure = NoEnsure
  i1 = i1
  i2 = i2
  t1 = t1
  t2 = t2
  f1 = f1
  f2 = f2
  PartnerIds = {i1, i2}
  Tabs = {t1, t2}
  WizardTabs = {t1, t2}
  Folders = {f1, f2}
  Requests <- MCRequests
  IsaIds = {1}
  InitialRows <- MCRows
  Drafts <- MCDrafts
  EmptyDraft <- MCEmpty
  FirstPartner <- MCFirst
  MaxSaves = 2
  MaxTyped = 2
  MaxPatches = 3
  MaxMishaps = 1
  Closed = Closed
  Every = Every
  d1 = d1
  d2 = d2
  Admins = {d1, d2}
  Texts = {"a", "b"}
  Ids = {"id"}
  AlertTypes = {"stale", "missing"}
  Stored <- MCStored
  MaxChanges = 2
  MaxSavings = 2
SPECIFICATION MCSpec
INVARIANTS IsaOwnedOnce CompleteMeansSetUp WatchesTheFolder
PROPERTIES LostOnlyToSave SavedAsShown
SYMMETRY MCSymmetry
CONSTRAINT MCConstraint
