\* An invitation and three requests at a time.
SPECIFICATION Spec
CONSTANTS
  i1 = i1
  r1 = r1
  r2 = r2
  r3 = r3
  Invitations = {i1}
  StaffRoles = {"fund_manager"}
  Requests = {r1, r2, r3}
  MaxVersion = 2
INVARIANTS
  TypeOK
  AcceptedIsMember
  CurrentTokenIsAsked
SYMMETRY Symmetric
