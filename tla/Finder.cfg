\* Two organizations, the four modes of authentication, ten kinds of request; three requests at once, a clock of three ticks, one bucket per group; two scripts beside two stored files, two days.
CONSTANTS
  None = None
  o1 = o1
  o2 = o2
  u1 = u1
  u2 = u2
  Tenants = {o1, o2}
  Pilot = o1
  Users = {u1, u2}
  Burst <- MCBurst
  PerToken <- MCPerToken
  Second = 2
  MaxKeys = 1
  MaxNow = 3
  MaxRequests = 3
  Docs <- MCDocs
  Empty = ""
  Take = 2
  MaxStored = 1
  MaxFaults = 1
  Texts <- MCTexts
  Lower <- MCLower
  Short = {"", "n"}
  PagesFor <- MCPages
  Home = o1
  Member = u1
  MaxTyped = 3
  Others <- MCOthers
  Initial <- MCInitial
  PilotTenant = o1
  Scripts = {p1, p2}
  ToPurge = {"a"}
  Controls = {"b"}
  DefaultPolicy <- MCDefault
  Grace = 1
  MaxDay = 3
  MaxIds = 3
  MaxRuns = 2
  MaxErrors = 1
SPECIFICATION MCSpec
INVARIANTS AnswersAreWhole BudgetKept ReportsAreEarned
PROPERTIES KeptAsAgreed
SYMMETRY MCSymmetry
CHECK_DEADLOCK FALSE
CONSTRAINT MCConstraint
