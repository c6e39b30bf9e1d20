\* Five files, three stored at most, one partner, two saves, passes or walks.
CONSTANTS
  Null = Null
  p1 = p1
  p2 = p2
  PartnerIds = {p1}
  Inputs <- MCInputs
  Catalogue <- MCCatalogue
  OurIds <- MCOurIds
  Day = 1
  Week = 2
  Month = 2
  MinTotal = 1
  Horizon = 2
  MaxFiles = 3
  MaxOps = 2
SPECIFICATION OSpec
PROPERTIES DetectorsAgree ArrivalsOnlyComplete WalkSeesAll
CHECK_DEADLOCK FALSE
