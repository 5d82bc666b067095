\* Two statements that overlap, and two calls of one commitment.
SPECIFICATION BankSpec
CONSTANTS
  k1 = k1
  k2 = k2
  c1 = c1
  f1 = f1
  i1 = i1
  i2 = i2
  t1 = t1
  t2 = t2
  u1 = u1
  u1b = u1b
  u2 = u2
  x = x
  s = s
  Calls = {k1, k2}
  Commitments = {c1}
  Funds = {f1}
  CallFund <- MCCallFund
  CommitmentFund <- MCCommitmentFund
  CallAmounts = {2}
  Dues = {2}
  Payments = {}
  LedgerAmounts = {0}
  DueDates = {0}
  MaxDay = 0
  Shares <- MCShares
  Imports = {i1, i2}
  Lines = {t1, t2, u1, u1b, u2}
  ImportOf <- MCImportOf
  ReferenceOf <- MCReferenceOf
  Synthetic = {s}
  Amounts = {1}
  MaxAssignments = 2
INVARIANTS
  BankTypeOK
  StatusMatchesMoney
  CalledInSync
  CreditedOnce
  ImportTallies
SYMMETRY Symmetric
