\* One call and two commitments: allocations, payments, send, cancel and the cron.
SPECIFICATION Spec
CONSTANTS
  k1 = k1
  k2 = k2
  c1 = c1
  c2 = c2
  r1 = r1
  r2 = r2
  r3 = r3
  Calls = {k1}
  Commitments = {c1, c2}
  Requests = {r1, r2, r3}
  Due <- MCDue
  Payments = {0, 2}
  PastDue = {k1}
  FirstItems <- MCAnyItems
  FirstStatus = {"draft", "sent"}
INVARIANTS
  TypeOK
  NeverShownUnsent
  OnlyAddsDeadlock
PROPERTIES
  OverlapFreeIsAtomic
  PaymentsSurviveAllocations
  RequestsFinish
