\* A tab with two alerts, of which a list takes one, and one row per list in two organizations, or two tabs that save preferences and settings; one failure, two acts or saves.
CONSTANTS
  None = None
  Unset = Unset
  All = All
  o1 = o1
  o2 = o2
  a1 = a1
  a2 = a2
  p1 = p1
  p2 = p2
  k1 = k1
  k2 = k2
  r1 = r1
  f1 = f1
  t1 = t1
  t2 = t2
  v1 = v1
  v2 = v2
  Orgs = {o1, o2}
  Alerts = {a1, a2}
  OrgOf <- MCOrgOf
  PartnerOf <- MCPartnerOf
  TypeOf <- MCTypeOf
  Partners = {p1, p2}
  Kinds = {k1, k2}
  Filters <- MCFilters
  InitialAlerts <- MCAlerts
  Orders = {r1}
  Files = {f1}
  MaxPage = 2
  MaxSteps = 2
  MaxFaults = 1
  MaxList = 1
  MaxNews = 1
  Tabs = {t1, t2}
  Pos = {r1}
  Views = {v1, v2}
  Landings = {"lifecycles"}
  Tables = {"transactions"}
  Layouts = {"plain", "compact"}
  Plain = "plain"
  Types = {"STALE_TRAFFIC"}
  InitialPrefs <- MCPrefs
  InitialSettings <- MCSettings
  MaxPins = 1
  MaxViews = 1
  MaxClicks = 2
  MaxLost = 1
SPECIFICATION MCSpec
INVARIANTS ShownIsOwn FreshAfterAct
PROPERTIES AckAllTakesShown LostOnlyToUnseen
CHECK_DEADLOCK FALSE
CONSTRAINT MCConstraint
