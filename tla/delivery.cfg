\* Two jobs, of one delivery key or of two.  Every job may end: the system may stop.
SPECIFICATION FairSpec
CONSTANTS
  j1 = j1
  j2 = j2
  a = a
  b = b
  Jobs = {j1, j2}
  Keys = {a, b}
  UserJobs = {j1}
  MaxTries = 2
INVARIANTS
  TypeOK
  SentIsTrue
  SoleMail
PROPERTIES
  JobsEnd
CHECK_DEADLOCK FALSE
