\* Payments on two calls of one commitment, each summed before the other is committed.
SPECIFICATION Spec
CONSTANTS
  k1 = k1
  k2 = k2
  c1 = c1
  c2 = c2
  r1 = r1
  r2 = r2
  r3 = r3
  Calls = {k1, k2}
  Commitments = {c1}
  Requests = {r1, r2, r3}
  Due <- MCDue
  Payments = {0, 2}
  PastDue = {k2}
  FirstItems <- MCAllItems
  FirstStatus = {"draft", "sent"}
INVARIANT TotalsSettle
