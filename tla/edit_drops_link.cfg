CONSTANTS
  MaxRequests = 1
  MaxHandlers = 2
  Roles = {"fund_manager"}
  Manners = {FALSE}
  Contacts = {c1}
  Clients = {"drawer", "elsewhere"}
  Elsewhere = {}
  Absent = Absent
  c1 = c1
SPECIFICATION ContactSpec
CHECK_DEADLOCK FALSE
PROPERTY EditKeepsLink
