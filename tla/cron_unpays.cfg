\* The cron takes a fully paid call for a late one.
SPECIFICATION Spec
CONSTANTS
  k1 = k1
  k2 = k2
  c1 = c1
  c2 = c2
  f1 = f1
  Calls = {k1}
  Commitments = {c1, c2}
  Funds = {f1}
  CallFund <- MCCallFund
  CommitmentFund <- MCCommitmentFund
  CallAmounts = {1, 2}
  Dues = {0, 2}
  Payments = {0, 1, 2}
  LedgerAmounts = {0, 3}
  DueDates = {0, 1}
  MaxDay = 2
  Shares <- MCShares
PROPERTY PaidLeavesOnlyByCorrection
