CONSTANTS
  Payers = {p1, p2}
  Matched = {p1}
  MaxImports = 1
  Manners = {TRUE}
  Unassigned = Unassigned
  Ignored = Ignored
  Suggestion = Suggestion
  NoPayment = NoPayment
  p1 = p1
  p2 = p2
  Looks <- PageLooks
  MaxAsked <- AskedAtMost
  PagedLists <- AllLists
  PageSize = 1
  MaxEntries = 3
  Rows <- SampleRows
  Commitments = {m1, m2}
  Desks <- NoticeLooks
  m1 = m1
  m2 = m2
SPECIFICATION MCSpec
CHECK_DEADLOCK FALSE
INVARIANTS
  PatientOwnPayer
  
  PagesMissNothing
  OrderIsSound
  SentHasRecipients
  NoticeCatchesUp
PROPERTY TypedTextSurvives
