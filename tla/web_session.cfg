\* Both apps, patient and impatient users, from every page and every selection
\* localStorage may hold.
SPECIFICATION FairSpec
CONSTANTS
  a = a
  b = b
  NoOrg = NoOrg
  Orgs = {a, b}
  Joined = {a}
  MaxChecks = 2
CHECK_DEADLOCK FALSE
INVARIANT
  RowsFollowTheUrl
PROPERTIES
  SignedInStaysIn
  WorkspaceOpens
