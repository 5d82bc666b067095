CONSTANTS
  MaxRequests = 1
  MaxHandlers = 2
  Roles = {"fund_manager", "lp"}
  Manners = {TRUE, FALSE}
  Clients = {"drawer", "elsewhere"}
  Elsewhere <- Removal
  Contacts = {c1, c2}
  Absent = Absent
  RegisterManners <- RegisterLooks
  MaxChanges = 2
  Investors = {v1, v2}
  Details = {d1, d2}
  None = None
  Gone = Gone
  c1 = c1
  c2 = c2
  v1 = v1
  v2 = v2
  d1 = d1
  d2 = d2
SPECIFICATION MCSpec
CHECK_DEADLOCK FALSE
INVARIANTS
  DetailsStayTheirOwn
PROPERTIES
  SecondPrimaryNeedsOverlap
  PrimaryGoneNeedsOverlap
  ContactsCatchUp
  DeletedDrawerCloses
