\* An invitation is mailed and then resent.
SPECIFICATION MailSpec
CONSTANTS
  Invitations = {i1}
  StaffRoles = {"fund_manager"}
  Requests = {r1}
  MaxVersion = 1
  MaxTries = 1
INVARIANT FreshLinkIsMailed
CHECK_DEADLOCK FALSE
